---- MODULE Spec2Model ----
(***************************************************************************)
(* Phaser.TileLayer and Phaser.Tile: the grid of cells of one tile layer,  *)
(* the per-index default rules, and the two-pass refresh (applyRules,      *)
(* calculateFaces) with its change counters.                               *)
(*                                                                         *)
(* JavaScript values are encoded as follows.  null and undefined are the   *)
(* empty sequence, an object or number that may be null is a one-element   *)
(* sequence; a value returned to the caller is recorded by its kind        *)
(* ("undefined", "null", "false", "true", "tile").  A TypeError raised by  *)
(* a property access on null is recorded as threw = TRUE, with the layer   *)
(* left as it was when the error was raised.                               *)
(***************************************************************************)
EXTENDS Integers, Sequences, FiniteSets, TLC

\* ------------------------------------------------------------------ bounds
\* Tile indexes written by callers are 0..MaxIndex (and -1 for "clear").
MaxIndex == 1
\* Operations that would take changeCount past this value are not taken.
MaxChangeCount == 2
\* Operations that would take ruleChanges past this value are not taken.
MaxRuleChanges == 1
\* Longest list of tile indexes handed to setDefaultCollisionFlags.
MaxListLen == 2
\* The roles a layer may hold; createTileRole is not called beyond it.
MaxRoles == 3

\* ------------------------------------------------------- program constants
COLLIDE_ALL == 15
FACE_ALL == 240
HAS_COLLISION_TEST == 256
DEBUG == 4096

Null == <<>>
Undefined == <<>>

\* ------------------------------------------------------------ bit helpers
RECURSIVE BitAnd(_, _)
BitAnd(a, b) ==
    IF a = 0 \/ b = 0 THEN 0
    ELSE (a % 2) * (b % 2) + 2 * BitAnd(a \div 2, b \div 2)

BitOr(a, b) == a + b - BitAnd(a, b)

\* a & ~m
BitClear(a, m) == a - BitAnd(a, m)

\* ------------------------------------------------------------------ Tile
\* new Phaser.Tile(layer, tileIndex, x, y)
\* expanded is _expanded; collisionTest is _collisionTest: Undefined, or
\* <<handler>> where handler is the array <<callback, context, e1, ..., en>>;
\* properties is _properties: Undefined, or <<[value, cell]>> where value is
\* what the object holds and cell says that it is the very object the
\* stored tile of cell (x, y) has as its _properties, so that a change of
\* it is a change of that cell.
Tile(tileIndex, x, y) ==
    [tileIndex |-> tileIndex, roleId |-> 0, x |-> x, y |-> y,
     alpha |-> 1, tileFlags |-> 0, expanded |-> FALSE, collisionTest |-> Undefined,
     properties |-> Undefined]

resetToNonExistant(tile) ==
    [tile EXCEPT !.tileIndex = -1, !.roleId = 0, !.tileFlags = 0, !.alpha = 1,
                 !.collisionTest = Undefined, !.properties = Undefined]

\* Tile._expand()
expand(tile) ==
    IF tile.expanded THEN tile
    ELSE [tile EXCEPT !.expanded = TRUE, !.collisionTest = Undefined,
                      !.properties = Undefined]

\* Phaser.Utils.extend(true, {}, properties): a new object with the same
\* content.
extend(properties) == [value |-> properties.value, cell |-> FALSE]

\* target.copyFrom(srcTile, disconnect): x and y of the target are kept.
copyFrom(target, srcTile, disconnect) ==
    LET copied == [target EXCEPT !.tileIndex = srcTile.tileIndex,
                                 !.roleId = srcTile.roleId,
                                 !.alpha = srcTile.alpha,
                                 !.tileFlags = srcTile.tileFlags]
    IN IF srcTile.expanded
       THEN [expand(copied) EXCEPT
               !.properties =
                   IF /\ srcTile.properties # Undefined
                      /\ (disconnect \/ target.x # srcTile.x \/ target.y # srcTile.y)
                   THEN <<extend(srcTile.properties[1])>>
                   ELSE srcTile.properties,
               !.collisionTest = srcTile.collisionTest]
       ELSE copied

\* The `properties` getter, followed by an assignment of value to a member
\* of the object it returns.
setProperty(tile, value) ==
    IF tile.properties = Undefined
    THEN [expand(tile) EXCEPT !.properties = <<[value |-> value, cell |-> FALSE]>>]
    ELSE [tile EXCEPT !.properties[1].value = value]

\* The `debug` setter.
setDebug(tile, value) ==
    IF value THEN [tile EXCEPT !.tileFlags = BitOr(@, DEBUG)]
    ELSE [tile EXCEPT !.tileFlags = BitClear(@, DEBUG)]

\* The tile as the object stored in its cell: its properties object is by
\* definition the one of the cell.
stored(tile) ==
    IF tile.properties = Undefined THEN tile
    ELSE [tile EXCEPT !.properties[1].cell = TRUE]

\* Tile.setSharedCollisionTest(collisionTest)
setSharedCollisionTest(tile, collisionTest) ==
    IF collisionTest # Null
    THEN [expand(tile) EXCEPT !.tileFlags = BitOr(@, HAS_COLLISION_TEST),
                              !.collisionTest = collisionTest]
    ELSE [tile EXCEPT !.tileFlags = BitClear(@, HAS_COLLISION_TEST),
                      !.collisionTest = Undefined]

\* Tile.setCollisionTest(callback, context, e1, ..., en): callback and
\* context are Null or <<value>>, args is <<e1, ..., en>>.
setCollisionTest(tile, callback, context, args) ==
    IF callback # Null
    THEN setSharedCollisionTest(
             tile, <<(<<callback[1], IF context = Null THEN "null" ELSE context[1]>>
                      \o args)>>)
    ELSE setSharedCollisionTest(tile, Null)

\* handler[0].call / handler[0].apply: one call record.
invoke(handler, args) ==
    [callback |-> handler[1], context |-> handler[2], args |-> args]

\* Tile.doTileCollisionTest(collider): the value returned ("result" for the
\* callback's) and the calls made; "this" in an argument list is the tile.
doTileCollisionTest(tile, collider) ==
    LET handler == tile.collisionTest IN
    IF handler = Undefined \/ tile.tileIndex < 0
    THEN [ret |-> "pass", calls |-> <<>>]
    ELSE IF Len(handler[1]) <= 2
    THEN [ret |-> "result", calls |-> <<invoke(handler[1], <<collider, "this">>)>>]
    ELSE LET args == <<collider, "this">>
             \* args.concat(handler.slice(2)) makes a new array that is
             \* dropped; args itself is what apply receives.
             concatenated == args \o SubSeq(handler[1], 3, Len(handler[1]))
         IN [ret |-> "result", calls |-> <<invoke(handler[1], args)>>]

collideUp(tile) == BitAnd(tile.tileFlags, 8) # 0
collideDown(tile) == BitAnd(tile.tileFlags, 4) # 0
collideLeft(tile) == BitAnd(tile.tileFlags, 2) # 0
collideRight(tile) == BitAnd(tile.tileFlags, 1) # 0

\* tile.faceTop = false, tile.faceBottom = false, ...
clearFaceTop(tile) == [tile EXCEPT !.tileFlags = BitClear(@, 128)]
clearFaceBottom(tile) == [tile EXCEPT !.tileFlags = BitClear(@, 64)]
clearFaceLeft(tile) == [tile EXCEPT !.tileFlags = BitClear(@, 32)]
clearFaceRight(tile) == [tile EXCEPT !.tileFlags = BitClear(@, 16)]

\* ------------------------------------------------------------- TileLayer
\* new Phaser.TileLayer(tilemap, width, height, tileWidth, tileHeight)
TileLayer(width, height) ==
    [width |-> width, height |-> height,
     data |-> [y \in 0..(height - 1) |-> [x \in 0..(width - 1) |-> Null]],
     indexData |-> [i \in 0..MaxIndex |-> Undefined],
     changeCount |-> 0,
     ruleChanges |-> 0,
     clearedApplyRules |-> 0,
     clearedCalculateFaces |-> 0,
     suppressRefresh |-> FALSE,
     roleData |-> <<Null>>,
     rolesByName |-> <<>>]

\* this._rolesByName[roleName]; rolesByName is a function from the names
\* that were assigned to the values assigned.
rolesByNameAt(L, roleName) ==
    IF roleName \in DOMAIN L.rolesByName THEN L.rolesByName[roleName] ELSE Undefined

\* createTileRole(roleName): the layer and the role returned.  _roleData[k]
\* is roleData[k + 1].
createTileRole(L, roleName) ==
    LET role == rolesByNameAt(L, roleName) IN
    IF role = Undefined
    THEN LET new == <<[roleId |-> Len(L.roleData), roleName |-> roleName]>> IN
         [layer |-> [L EXCEPT !.roleData = Append(@, new),
                              !.rolesByName =
                                  [n \in DOMAIN @ \cup {roleName} |->
                                      IF n = roleName THEN Null ELSE @[n]]],
          role |-> new]
    ELSE [layer |-> L, role |-> role]

\* getTileRole(roleName)
getTileRole(L, roleName) ==
    IF rolesByNameAt(L, roleName) = Undefined THEN Null
    ELSE rolesByNameAt(L, roleName)

\* this.data.length and row.length
dataLength(L) == L.height
rowLength(L) == L.width

\* The test every cell accessor starts with.
outOfRange(L, x, y) ==
    (y < 0 \/ y >= dataLength(L)) \/ (x < 0 \/ x >= rowLength(L))

\* this._indexData[tileIndex]; undefined for an index never stored (as -1).
indexDataAt(L, tileIndex) ==
    IF tileIndex \in DOMAIN L.indexData THEN L.indexData[tileIndex] ELSE Undefined

\* A rule application that writes the mask over the whole flag word.
applyDefaultTileRulesAllFlags(L, tile) ==
    LET data == indexDataAt(L, tile.tileIndex) IN
    IF data # Undefined /\ data[1].defaultCollideMask # Null
    THEN [tile EXCEPT !.tileFlags = data[1].defaultCollideMask[1]]
    ELSE tile

applyDefaultTileRules(L, tile) ==
    LET data == indexDataAt(L, tile.tileIndex) IN
    IF data # Undefined /\ data[1].defaultCollideMask # Null
    THEN [tile EXCEPT !.tileFlags =
            BitOr(BitClear(BitClear(@, COLLIDE_ALL), FACE_ALL),
                  data[1].defaultCollideMask[1])]
    ELSE tile

\* row[x] = tile
storeCell(L, x, y, slot) == [L EXCEPT !.data[y][x] = slot]

\* _ensureTile: the stored tile, a new stored tile of index -1, or null.
ensureTile(L, x, y) ==
    IF outOfRange(L, x, y) THEN [layer |-> L, tile |-> Null]
    ELSE IF L.data[y][x] # Null THEN [layer |-> L, tile |-> L.data[y][x]]
    ELSE [layer |-> storeCell(L, x, y, <<Tile(-1, x, y)>>),
          tile |-> <<Tile(-1, x, y)>>]

\* A clearCell that counts a change only when it removed a tile.
clearCellCountsRemovals(L, x, y) ==
    IF outOfRange(L, x, y) THEN L
    ELSE IF L.data[y][x] = Null THEN L
    ELSE [storeCell(L, x, y, Null) EXCEPT !.changeCount = @ + 1]

clearCell(L, x, y) ==
    IF outOfRange(L, x, y) THEN L
    ELSE [storeCell(L, x, y, Null) EXCEPT !.changeCount = @ + 1]

\* A setCell that writes the index first and then applies the default rules.
setCellNewIndexRules(L, x, y, tileIndex, roleId, alpha) ==
    IF tileIndex > -1
    THEN LET e == ensureTile(L, x, y) IN
         IF e.tile = Null
         THEN [layer |-> e.layer, threw |-> TRUE]
         ELSE LET t0 == e.tile[1]
                  t1 == [t0 EXCEPT !.tileIndex = tileIndex]
                  t2 == IF t0.tileIndex # tileIndex
                        THEN applyDefaultTileRules(e.layer, t1) ELSE t1
                  t3 == IF roleId # Undefined
                        THEN [t2 EXCEPT !.roleId = roleId[1]] ELSE t2
                  t4 == IF alpha # Undefined
                        THEN [t3 EXCEPT !.alpha = alpha[1]] ELSE t3
              IN [layer |-> [storeCell(e.layer, x, y, <<t4>>)
                               EXCEPT !.changeCount = @ + 1],
                  threw |-> FALSE]
    ELSE [layer |-> clearCell(L, x, y), threw |-> FALSE]

\* A setCell that writes the index only into a tile it has just created.
setCellStale(L, x, y, tileIndex, roleId, alpha) ==
    IF tileIndex > -1
    THEN LET e == ensureTile(L, x, y) IN
         IF e.tile = Null
         THEN [layer |-> e.layer, threw |-> TRUE]
         ELSE LET t0 == e.tile[1]
                  t1 == IF t0.tileIndex # tileIndex
                        THEN applyDefaultTileRules(e.layer, t0) ELSE t0
                  t2 == IF L.data[y][x] = Null
                        THEN [t1 EXCEPT !.tileIndex = tileIndex] ELSE t1
              IN [layer |-> [storeCell(e.layer, x, y, <<t2>>)
                               EXCEPT !.changeCount = @ + 1],
                  threw |-> FALSE]
    ELSE [layer |-> clearCell(L, x, y), threw |-> FALSE]

\* setCell; roleId and alpha are Undefined when the caller omits them.
setCell(L, x, y, tileIndex, roleId, alpha) ==
    IF tileIndex > -1
    THEN LET e == ensureTile(L, x, y) IN
         IF e.tile = Null
         THEN [layer |-> e.layer, threw |-> TRUE]   \* null.tileIndex
         ELSE LET t0 == e.tile[1]
                  t1 == IF t0.tileIndex # tileIndex
                        THEN applyDefaultTileRules(e.layer, t0) ELSE t0
                  t2 == [t1 EXCEPT !.tileIndex = tileIndex]
                  t3 == IF roleId # Undefined
                        THEN [t2 EXCEPT !.roleId = roleId[1]] ELSE t2
                  t4 == IF alpha # Undefined
                        THEN [t3 EXCEPT !.alpha = alpha[1]] ELSE t3
              IN [layer |-> [storeCell(e.layer, x, y, <<t4>>)
                               EXCEPT !.changeCount = @ + 1],
                  threw |-> FALSE]
    ELSE [layer |-> clearCell(L, x, y), threw |-> FALSE]

\* A setCellFromTile that clears the cell only when it is given no tile.
setCellFromTileStoresNegative(L, x, y, sourceTile) ==
    IF sourceTile # Null
    THEN LET e == ensureTile(L, x, y) IN
         IF e.tile = Null
         THEN [layer |-> e.layer, threw |-> TRUE]
         ELSE [layer |-> [storeCell(e.layer, x, y,
                                    <<stored(copyFrom(e.tile[1], sourceTile[1], FALSE))>>)
                            EXCEPT !.changeCount = @ + 1],
               threw |-> FALSE]
    ELSE [layer |-> clearCell(L, x, y), threw |-> FALSE]

\* A setCellFromTile that takes index 0 for the deletion sentinel as well.
setCellFromTileDropsZero(L, x, y, sourceTile) ==
    IF sourceTile # Null /\ sourceTile[1].tileIndex > 0
    THEN LET e == ensureTile(L, x, y) IN
         IF e.tile = Null
         THEN [layer |-> e.layer, threw |-> TRUE]
         ELSE [layer |-> [storeCell(e.layer, x, y,
                                    <<stored(copyFrom(e.tile[1], sourceTile[1], FALSE))>>)
                            EXCEPT !.changeCount = @ + 1],
               threw |-> FALSE]
    ELSE [layer |-> clearCell(L, x, y), threw |-> FALSE]

\* setCellFromTile; sourceTile is Null or a one-element sequence.
setCellFromTile(L, x, y, sourceTile) ==
    IF sourceTile # Null /\ sourceTile[1].tileIndex > -1
    THEN LET e == ensureTile(L, x, y) IN
         IF e.tile = Null
         THEN [layer |-> e.layer, threw |-> TRUE]   \* null.copyFrom
         ELSE [layer |-> [storeCell(e.layer, x, y,
                                    <<stored(copyFrom(e.tile[1], sourceTile[1], FALSE))>>)
                            EXCEPT !.changeCount = @ + 1],
               threw |-> FALSE]
    ELSE [layer |-> clearCell(L, x, y), threw |-> FALSE]

\* A hasCell that reports every stored tile as a cell.
hasCellAnyTile(L, x, y) ==
    IF outOfRange(L, x, y) THEN "false"
    ELSE IF L.data[y][x] = Null THEN "null" ELSE "true"

\* hasCell returns `tile && tile.tileIndex > -1`: null for an empty slot.
hasCell(L, x, y) ==
    IF outOfRange(L, x, y) THEN "false"
    ELSE LET tile == L.data[y][x] IN
         IF tile = Null THEN "null"
         ELSE IF tile[1].tileIndex > -1 THEN "true" ELSE "false"

getTileRef(L, x, y) ==
    IF outOfRange(L, x, y) THEN Null ELSE L.data[y][x]

\* A getTileCopy that returns a new non-existent tile for every cell.
getTileCopyFresh(L, x, y, forceMaterialize) ==
    IF outOfRange(L, x, y) THEN Null
    ELSE LET tile == L.data[y][x] IN
         IF tile # Null \/ forceMaterialize THEN <<Tile(-1, x, y)>>
         ELSE Null

getTileCopy(L, x, y, forceMaterialize) ==
    IF outOfRange(L, x, y) THEN Null
    ELSE LET tile == L.data[y][x] IN
         IF tile # Null THEN <<copyFrom(Tile(-1, x, y), tile[1], FALSE)>>
         ELSE IF forceMaterialize THEN <<Tile(-1, x, y)>>
         ELSE Null

\* getTileIndexData(tileIndex, autoCreate): the layer and the data object.
getTileIndexData(L, tileIndex, autoCreate) ==
    LET data == indexDataAt(L, tileIndex) IN
    IF data # Undefined THEN [layer |-> L, data |-> data]
    ELSE IF autoCreate
    THEN [layer |-> [L EXCEPT !.indexData[tileIndex] =
                        <<[defaultCollideMask |-> Null]>>],
          data |-> <<[defaultCollideMask |-> Null]>>]
    ELSE [layer |-> L, data |-> Null]

\* ------------------------------------------------------ refresh engine
\* A skip test for applyRules in which suppression also stops a forced pass.
applyRulesSkipsForced(L, force) ==
    \/ L.suppressRefresh
    \/ (~force /\ L.clearedApplyRules >= L.ruleChanges)

\* A skip test whose optimistic check ignores `force`.
applyRulesSkipsWhenClean(L, force) ==
    \/ (~force /\ L.suppressRefresh)
    \/ L.clearedApplyRules >= L.ruleChanges

applyRulesSkips(L, force) ==
    \/ (~force /\ L.suppressRefresh)
    \/ (~force /\ L.clearedApplyRules >= L.ruleChanges)

\* A rule sweep that leaves changeCount as it was.
applyRulesKeepsCount(L, force) ==
    IF applyRulesSkips(L, force) THEN L
    ELSE [L EXCEPT
            !.data = [y \in DOMAIN L.data |-> [x \in DOMAIN L.data[y] |->
                        IF L.data[y][x] = Null THEN Null
                        ELSE <<applyDefaultTileRules(L, L.data[y][x][1])>>]],
            !.clearedApplyRules = L.ruleChanges]

applyRules(L, force) ==
    IF applyRulesSkips(L, force) THEN L
    ELSE [L EXCEPT
            !.data = [y \in DOMAIN L.data |-> [x \in DOMAIN L.data[y] |->
                        IF L.data[y][x] = Null THEN Null
                        ELSE <<applyDefaultTileRules(L, L.data[y][x][1])>>]],
            !.clearedApplyRules = L.ruleChanges,
            !.changeCount = @ + 1]

\* A skip test for calculateFaces without the optimistic check.
calculateFacesSkipsSuppressedOnly(L, force) == ~force /\ L.suppressRefresh

calculateFacesSkips(L, force) ==
    \/ (~force /\ L.suppressRefresh)
    \/ (~force /\ L.clearedCalculateFaces >= L.changeCount)

\* A sweep body that tests each neighbour's facing side (the tile above by
\* its collideDown, and so on) instead of the same-named side.
faceTileMirrored(L, data, x, y) ==
    LET tile == data[y][x][1]
        t0 == [tile EXCEPT !.tileFlags = BitClear(@, FACE_ALL)]
        t1 == [t0 EXCEPT !.tileFlags = BitOr(@, BitAnd(@, COLLIDE_ALL) * 16)]
        above == IF y - 1 >= 0 THEN data[y - 1][x] ELSE Undefined
        below == IF y + 1 < dataLength(L) THEN data[y + 1][x] ELSE Undefined
        left == IF x - 1 >= 0 THEN data[y][x - 1] ELSE Undefined
        right == IF x + 1 < rowLength(L) THEN data[y][x + 1] ELSE Undefined
        t2 == IF above # Null /\ collideDown(above[1]) THEN clearFaceTop(t1) ELSE t1
        t3 == IF below # Null /\ collideUp(below[1]) THEN clearFaceBottom(t2) ELSE t2
        t4 == IF left # Null /\ collideRight(left[1]) THEN clearFaceLeft(t3) ELSE t3
        t5 == IF right # Null /\ collideLeft(right[1]) THEN clearFaceRight(t4) ELSE t4
    IN t5

\* A sweep body that raises all four faces, whatever the tile collides
\* with.
faceTileRaisesAll(L, data, x, y) ==
    LET tile == data[y][x][1]
        t1 == [tile EXCEPT !.tileFlags = BitOr(@, FACE_ALL)]
        above == IF y - 1 >= 0 THEN data[y - 1][x] ELSE Undefined
        below == IF y + 1 < dataLength(L) THEN data[y + 1][x] ELSE Undefined
        left == IF x - 1 >= 0 THEN data[y][x - 1] ELSE Undefined
        right == IF x + 1 < rowLength(L) THEN data[y][x + 1] ELSE Undefined
        t2 == IF above # Null /\ collideUp(above[1]) THEN clearFaceTop(t1) ELSE t1
        t3 == IF below # Null /\ collideDown(below[1]) THEN clearFaceBottom(t2) ELSE t2
        t4 == IF left # Null /\ collideLeft(left[1]) THEN clearFaceLeft(t3) ELSE t3
        t5 == IF right # Null /\ collideRight(right[1]) THEN clearFaceRight(t4) ELSE t4
    IN t5

\* The body of the sweep for the tile at (x, y) of `data`.
faceTile(L, data, x, y) ==
    LET tile == data[y][x][1]
        t0 == [tile EXCEPT !.tileFlags = BitClear(@, FACE_ALL)]
        t1 == [t0 EXCEPT !.tileFlags = BitOr(@, BitAnd(@, COLLIDE_ALL) * 16)]
        above == IF y - 1 >= 0 THEN data[y - 1][x] ELSE Undefined
        below == IF y + 1 < dataLength(L) THEN data[y + 1][x] ELSE Undefined
        left == IF x - 1 >= 0 THEN data[y][x - 1] ELSE Undefined
        right == IF x + 1 < rowLength(L) THEN data[y][x + 1] ELSE Undefined
        t2 == IF above # Null /\ collideUp(above[1]) THEN clearFaceTop(t1) ELSE t1
        t3 == IF below # Null /\ collideDown(below[1]) THEN clearFaceBottom(t2) ELSE t2
        t4 == IF left # Null /\ collideLeft(left[1]) THEN clearFaceLeft(t3) ELSE t3
        t5 == IF right # Null /\ collideRight(right[1]) THEN clearFaceRight(t4) ELSE t4
    IN t5

\* The sweep, top to bottom and left to right, from linear position k on.
RECURSIVE facesSweep(_, _, _)
facesSweep(L, data, k) ==
    IF k >= L.width * L.height THEN data
    ELSE LET x == k % L.width
             y == k \div L.width
         IN IF data[y][x] = Null \/ data[y][x][1].tileIndex < 0
            THEN facesSweep(L, data, k + 1)
            ELSE facesSweep(L, [data EXCEPT ![y][x] = <<faceTile(L, data, x, y)>>],
                            k + 1)

\* A sweep that marks itself one change ahead of changeCount.
calculateFacesMarksAhead(L, force) ==
    IF calculateFacesSkips(L, force) THEN L
    ELSE [L EXCEPT !.data = facesSweep(L, L.data, 0),
                   !.clearedCalculateFaces = L.changeCount + 1]

\* A face sweep that counts itself as a change.
calculateFacesCounts(L, force) ==
    IF calculateFacesSkips(L, force) THEN L
    ELSE [L EXCEPT !.data = facesSweep(L, L.data, 0),
                   !.changeCount = @ + 1,
                   !.clearedCalculateFaces = L.changeCount + 1]

calculateFaces(L, force) ==
    IF calculateFacesSkips(L, force) THEN L
    ELSE [L EXCEPT !.data = facesSweep(L, L.data, 0),
                   !.clearedCalculateFaces = L.changeCount]

\* A refresh that sweeps the faces before it applies the rules.
refreshLayerFacesFirst(L, force) == applyRules(calculateFaces(L, force), force)

refreshLayer(L, force) == calculateFaces(applyRules(L, force), force)

\* The suppressRefresh setter.
\* A setter that refreshes before it clears the flag.
setSuppressRefreshLate(L, suppress) ==
    IF suppress /\ ~L.suppressRefresh
    THEN [L EXCEPT !.suppressRefresh = TRUE]
    ELSE IF ~suppress /\ L.suppressRefresh
    THEN [refreshLayer(L, FALSE) EXCEPT !.suppressRefresh = FALSE]
    ELSE L

setSuppressRefresh(L, suppress) ==
    IF suppress /\ ~L.suppressRefresh
    THEN [L EXCEPT !.suppressRefresh = TRUE]
    ELSE IF ~suppress /\ L.suppressRefresh
    THEN refreshLayer([L EXCEPT !.suppressRefresh = FALSE], FALSE)
    ELSE L

\* How many times the setter calls refreshLayer.
setSuppressRefreshCalls(L, suppress) ==
    IF suppress /\ ~L.suppressRefresh THEN 0
    ELSE IF ~suppress /\ L.suppressRefresh THEN 1
    ELSE 0

\* The loop of setDefaultCollisionFlags over tileIndexes[i..], with
\* collideFlags already masked; stops at the first TypeError.
RECURSIVE setDefaultLoop(_, _, _, _)
setDefaultLoop(L, tileIndexes, i, collideFlags) ==
    IF i > Len(tileIndexes) THEN [layer |-> L, threw |-> FALSE]
    ELSE LET g == getTileIndexData(L, tileIndexes[i], collideFlags # 0) IN
         IF g.data = Null
         THEN [layer |-> g.layer, threw |-> TRUE]   \* null.defaultCollideMask = ..
         ELSE setDefaultLoop(
                [g.layer EXCEPT
                   !.indexData[tileIndexes[i]] =
                       <<[g.data[1] EXCEPT !.defaultCollideMask = <<collideFlags>>]>>,
                   !.ruleChanges = @ + 1],
                tileIndexes, i + 1, collideFlags)

\* collideFlags &= COLLIDE_ALL; collideFlags |= (collideFlags << 4)
collideMask(collideFlags) ==
    BitOr(BitAnd(collideFlags, COLLIDE_ALL), BitAnd(collideFlags, COLLIDE_ALL) * 16)

setDefaultCollisionFlags(L, tileIndexes, collideFlags, applyImmediately) ==
    LET r == setDefaultLoop(L, tileIndexes, 1, collideMask(collideFlags)) IN
    IF r.threw THEN r
    ELSE IF applyImmediately
    THEN [layer |-> refreshLayer(r.layer, FALSE), threw |-> FALSE]
    ELSE r

\* An `index` setter that stores a new index and leaves the rules alone.
setIndexNoRules(L, tile, index) ==
    IF index < 0 THEN resetToNonExistant(tile)
    ELSE IF index # tile.tileIndex
    THEN [tile EXCEPT !.tileIndex = index]
    ELSE tile

\* The `index` setter of a Tile, applied to the stored tile of a cell
\* (a holder of the reference returned by getTileRef assigns tile.index).
setIndex(L, tile, index) ==
    IF index < 0 THEN resetToNonExistant(tile)
    ELSE IF index # tile.tileIndex
    THEN applyDefaultTileRules(L, [tile EXCEPT !.tileIndex = index])
    ELSE tile

\* Tile.setCollision(left, right, up, down)
setCollision(tile, left, right, up, down) ==
    LET collisionFlags ==
            (IF up THEN 8 + 128 ELSE 0) + (IF down THEN 4 + 64 ELSE 0)
          + (IF left THEN 2 + 32 ELSE 0) + (IF right THEN 1 + 16 ELSE 0)
    IN [tile EXCEPT !.tileFlags =
          BitOr(BitClear(@, COLLIDE_ALL + FACE_ALL), collisionFlags)]

\* ------------------------------------------------------ region operations
\* A Phaser.Rectangle with integer members.
Rectangle(x, y, width, height) ==
    [x |-> x, y |-> y, width |-> width, height |-> height]

Max(a, b) == IF a > b THEN a ELSE b
Min(a, b) == IF a < b THEN a ELSE b

\* Phaser.Math.clamp(v, a, b)
clamp(v, a, b) == IF v < a THEN a ELSE IF v > b THEN b ELSE v

fitRectInLayer(L, rect) ==
    LET w1 == IF rect.x < 0 THEN rect.width - rect.x ELSE rect.width
        x1 == IF rect.x < 0 THEN 0 ELSE rect.x
        h1 == IF rect.y < 0 THEN rect.height - rect.y ELSE rect.height
        y1 == IF rect.y < 0 THEN 0 ELSE rect.y
    IN Rectangle(x1, y1, clamp(w1, 0, L.width - x1), clamp(h1, 0, L.height - y1))

\* The cells the loops of getExistingTiles and getTilesEx visit, in order:
\* ty from y to endy - 1, tx from x to endx - 1.
regionCells(L, x, y, width, height) ==
    LET x0 == Max(x, 0)
        y0 == Max(y, 0)
        w == Min(x0 + width, L.width) - x0
        h == Min(y0 + height, L.height) - y0
    IN [k \in 1..(IF w > 0 /\ h > 0 THEN w * h ELSE 0) |->
          <<x0 + ((k - 1) % w), y0 + ((k - 1) \div w)>>]

\* Tile.clone(true)
clone(tile) == copyFrom(Tile(-1, tile.x, tile.y), tile, TRUE)

\* An element of a tile array: Null, or <<[live, t]>> where t is the Tile
\* and live says that it is the very object stored in the cell (t.x, t.y),
\* so that a change of it is a change of the layer.
Element(live, tile) == <<[live |-> live, t |-> tile]>>

\* A getTilesEx that hands out the stored tiles even when asked for copies.
getTilesExNoCopy(L, x, y, width, height, forceMaterialize, forceCopy) ==
    LET cells == regionCells(L, x, y, width, height) IN
    [k \in DOMAIN cells |->
        LET tile == L.data[cells[k][2]][cells[k][1]] IN
        IF tile = Null /\ forceMaterialize
        THEN Element(FALSE, Tile(-1, cells[k][1], cells[k][2]))
        ELSE IF tile # Null THEN Element(TRUE, tile[1])
        ELSE Null]

\* getTilesEx with a new buffer.
getTilesEx(L, x, y, width, height, forceMaterialize, forceCopy) ==
    LET cells == regionCells(L, x, y, width, height) IN
    [k \in DOMAIN cells |->
        LET tile == L.data[cells[k][2]][cells[k][1]] IN
        IF tile = Null /\ forceMaterialize
        THEN Element(FALSE, Tile(-1, cells[k][1], cells[k][2]))
        ELSE IF tile # Null /\ forceCopy THEN Element(FALSE, clone(tile[1]))
        ELSE IF tile # Null THEN Element(TRUE, tile[1])
        ELSE Null]

\* getExistingTiles with a new buffer: the stored tiles of the region whose
\* tileFlags match anyMask.
getExistingTiles(L, x, y, width, height, anyMask) ==
    LET cells == regionCells(L, x, y, width, height)
        slots == [k \in DOMAIN cells |-> L.data[cells[k][2]][cells[k][1]]]
    IN SelectSeq(slots,
                 LAMBDA tile : tile # Null /\ BitAnd(tile[1].tileFlags, anyMask) # 0)

\* The buffer handling of getTilesEx and getExistingTiles: no buffer is a
\* new array; the tiles found overwrite the entries from the start or are
\* pushed, and the entries beyond the count are popped.
reuseBuffer(buffer, found) ==
    LET old == IF buffer = Null THEN <<>> ELSE buffer[1]
        written == [k \in 1..Max(Len(old), Len(found)) |->
                      IF k <= Len(found) THEN found[k] ELSE old[k]]
    IN SubSeq(written, 1, Len(found))

\* copyTiles with a new buffer: the object it returns has the members rect
\* and tiles (and layer), and no others.
copyTiles(L, rect, forceMaterialize) ==
    LET r == fitRectInLayer(L, rect) IN
    [rect |-> r,
     tiles |-> getTilesEx(L, r.x, r.y, r.width, r.height, forceMaterialize, TRUE)]

\* The Tile of an element as setCellFromTile receives it.
asSource(element) == IF element = Null THEN Null ELSE <<element[1].t>>

\* The inner loop of pasteTiles for row ty: tx from `tx` to endx - 1, every
\* column pasting `tile`.
RECURSIVE pasteRow(_, _, _, _, _, _)
pasteRow(L, tile, tx, endx, ty, pasteCount) ==
    IF tx >= endx THEN [layer |-> L, pasteCount |-> pasteCount]
    ELSE IF tx >= 0 /\ tx < L.width
    THEN pasteRow(setCellFromTile(L, tx, ty, asSource(tile)).layer,
                  tile, tx + 1, endx, ty, pasteCount + 1)
    ELSE pasteRow(L, tile, tx + 1, endx, ty, pasteCount)

\* The while loop of pasteTiles; i is the zero-based position in tiles.
RECURSIVE pasteLoop(_, _, _, _, _, _)
pasteLoop(L, copyData, x, i, ty, pasteCount) ==
    IF i >= Len(copyData.tiles) THEN [layer |-> L, pasteCount |-> pasteCount]
    ELSE LET r == IF ty >= 0 /\ ty < L.height
                  THEN pasteRow(L, copyData.tiles[i + 1], x,
                                x + copyData.rect.width, ty, pasteCount)
                  ELSE [layer |-> L, pasteCount |-> pasteCount]
         IN pasteLoop(r.layer, copyData, x, i + copyData.rect.width, ty + 1,
                      r.pasteCount)

\* pasteTiles; x and y are Undefined when omitted, offset is 0.  The result
\* is ret "0", "true" or "false", or threw.
pasteTiles(L, copyData, x, y) ==
    IF copyData = Null
    THEN [layer |-> L, threw |-> FALSE, ret |-> "0", pasteCount |-> 0]
    ELSE IF "buffer" \notin DOMAIN copyData[1]
    THEN [layer |-> L, threw |-> TRUE, ret |-> "undefined", pasteCount |-> 0]
                                                \* undefined.length
    ELSE IF Len(copyData[1].buffer) = 0
    THEN [layer |-> L, threw |-> FALSE, ret |-> "0", pasteCount |-> 0]
    ELSE LET cd == copyData[1]
             x1 == IF x = Undefined THEN cd.rect.x ELSE x[1]
             y1 == IF y = Undefined THEN cd.rect.x ELSE y[1]
             r == pasteLoop(L, cd, x1, 0, y1, 0)
         IN [layer |-> refreshLayer(r.layer, FALSE),
             threw |-> FALSE,
             \* copyData.width * copyData.height is NaN without those members
             ret |-> IF {"width", "height"} \subseteq DOMAIN cd
                        /\ cd.width * cd.height = r.pasteCount
                     THEN "true" ELSE "false",
             pasteCount |-> r.pasteCount]

\* `tile.index = index` on an element of a tile array.
assignIndex(L, element, index) ==
    IF element = Null THEN Null
    ELSE Element(element[1].live, setIndex(L, element[1].t, index))

\* `tile.index = undefined`: the setter stores undefined, which is neither
\* < 0 nor > -1; the cell then counts as non-existent wherever the index is
\* compared with -1, as for index -1, and the flags stay.
assignUndefined(element) ==
    IF element = Null THEN Null
    ELSE Element(element[1].live, [element[1].t EXCEPT !.tileIndex = -1])

elementIndex(element) == IF element = Null THEN -1 ELSE element[1].t.tileIndex

\* Tilemap._fillTransform(tiles, transform, fillIndex)
fillTransform(L, tiles, fillIndex) ==
    [i \in DOMAIN tiles |-> assignIndex(L, tiles[i], fillIndex)]

\* Phaser.Utils.shuffle(indexes), the permutation being perm.
shuffled(indexes, perm) == [i \in DOMAIN indexes |-> indexes[perm[i]]]

\* A _shuffleTransform that gives every tile the first shuffled index.
shuffleTransformFirst(L, tiles, perm) ==
    LET indexes == [i \in DOMAIN tiles |-> elementIndex(tiles[i])]
        after == shuffled(indexes, perm)
    IN [i \in DOMAIN tiles |-> assignIndex(L, tiles[i], after[1])]

\* Tilemap._shuffleTransform(tiles)
shuffleTransform(L, tiles, perm) ==
    LET indexes == [i \in DOMAIN tiles |-> elementIndex(tiles[i])]
        after == shuffled(indexes, perm)
    IN [i \in DOMAIN tiles |-> assignIndex(L, tiles[i], after[i])]

\* The first loop of _randomTransform: the distinct indexes > 0, in order of
\* first appearance, of tiles[i..].
RECURSIVE randomIndexes(_, _, _)
randomIndexes(tiles, i, indexes) ==
    IF i > Len(tiles) THEN indexes
    ELSE LET index == elementIndex(tiles[i]) IN
         randomIndexes(tiles, i + 1,
                       IF index > 0 /\ \A j \in DOMAIN indexes : indexes[j] # index
                       THEN Append(indexes, index) ELSE indexes)

\* game.rnd.pick(indexes), the random position being n: undefined for an
\* empty array.
pick(indexes, n) == IF indexes = <<>> THEN Undefined ELSE <<indexes[n]>>

\* A _randomTransform that picks among the tiles' own indexes, whatever
\* they are.
randomTransformAnyIndex(L, tiles, picks) ==
    LET indexes == [i \in DOMAIN tiles |-> elementIndex(tiles[i])] IN
    [i \in DOMAIN tiles |->
        IF pick(indexes, picks[i]) = Undefined THEN assignUndefined(tiles[i])
        ELSE assignIndex(L, tiles[i], pick(indexes, picks[i])[1])]

\* Tilemap._randomTransform(tiles); picks[i] is the random position drawn
\* for tiles[i].
randomTransform(L, tiles, picks) ==
    LET indexes == randomIndexes(tiles, 1, <<>>) IN
    [i \in DOMAIN tiles |->
        IF pick(indexes, picks[i]) = Undefined THEN assignUndefined(tiles[i])
        ELSE assignIndex(L, tiles[i], pick(indexes, picks[i])[1])]

\* A _swapTransform that turns indexA into indexB and leaves indexB.
swapTransformOneWay(L, tiles, indexA, indexB) ==
    [i \in DOMAIN tiles |->
        IF elementIndex(tiles[i]) = indexA THEN assignIndex(L, tiles[i], indexB)
        ELSE tiles[i]]

\* Tilemap._swapTransform(tiles, context, indexA, indexB)
swapTransform(L, tiles, indexA, indexB) ==
    [i \in DOMAIN tiles |->
        IF elementIndex(tiles[i]) = indexA THEN assignIndex(L, tiles[i], indexB)
        ELSE IF elementIndex(tiles[i]) = indexB THEN assignIndex(L, tiles[i], indexA)
        ELSE tiles[i]]

\* A callback that assigns tile.index = values[i][1] to tiles[i] unless the
\* element is null or values[i] is Undefined.
assignTransform(L, tiles, values) ==
    [i \in DOMAIN tiles |->
        IF values[i] = Undefined THEN tiles[i]
        ELSE assignIndex(L, tiles[i], values[i][1])]

\* callback.apply(context, [tiles, null].concat(args)): what the callback
\* has made of the tiles.
applyCallback(L, tiles, callback) ==
    CASE callback.name = "fill" -> fillTransform(L, tiles, callback.args)
      [] callback.name = "shuffle" -> shuffleTransform(L, tiles, callback.args)
      [] callback.name = "random" -> randomTransform(L, tiles, callback.args)
      [] callback.name = "assign" -> assignTransform(L, tiles, callback.args)
      [] callback.name = "swap" ->
           swapTransform(L, tiles, callback.args[1], callback.args[2])

\* The layer once the callback has changed the tiles: a live tile is the
\* stored one.
RECURSIVE storeLive(_, _, _)
storeLive(L, tiles, i) ==
    IF i > Len(tiles) THEN L
    ELSE IF tiles[i] # Null /\ tiles[i][1].live
    THEN storeLive(storeCell(L, tiles[i][1].t.x, tiles[i][1].t.y,
                             <<tiles[i][1].t>>),
                   tiles, i + 1)
    ELSE storeLive(L, tiles, i + 1)

\* The write-back loop of transformRegion from tiles[i] on; events collects
\* the calls made.
RECURSIVE writeBack(_, _, _, _)
writeBack(L, tiles, i, events) ==
    IF i > Len(tiles) THEN [layer |-> L, threw |-> FALSE, events |-> events]
    ELSE IF tiles[i] = Null
    THEN [layer |-> L, threw |-> TRUE, events |-> events]     \* null.x
    ELSE LET tile == tiles[i][1].t IN
         writeBack(setCellFromTile(L, tile.x, tile.y, <<tile>>).layer, tiles,
                   i + 1, Append(events, "setCellFromTile"))

\* transformRegion(rect, callback, context, args, forceMaterialize); tiles is
\* the array handed to the callback.
transformRegion(L, rect, callback, forceMaterialize) ==
    LET r == fitRectInLayer(L, rect)
        tiles == getTilesEx(L, r.x, r.y, r.width, r.height, forceMaterialize, FALSE)
        after == applyCallback(L, tiles, callback)
        w == writeBack(storeLive(L, after, 1), after, 1, <<"callback">>)
    IN IF w.threw THEN w @@ [tiles |-> tiles, rect |-> r]
       ELSE [layer |-> refreshLayer(w.layer, FALSE), threw |-> FALSE,
             events |-> Append(w.events, "refreshLayer(false)"),
             tiles |-> tiles, rect |-> r]

\* Tilemap.fill(index, x, y, width, height) on this layer.
fill(L, index, x, y, width, height) ==
    transformRegion(L, Rectangle(x, y, width, height),
                    [name |-> "fill", args |-> index], TRUE)

\* Tilemap.shuffle(x, y, width, height) on this layer, Phaser.Utils.shuffle
\* choosing the permutation perm.
shuffle(L, x, y, width, height, perm) ==
    transformRegion(L, Rectangle(x, y, width, height),
                    [name |-> "shuffle", args |-> perm], TRUE)

\* Tilemap.random(x, y, width, height) on this layer, game.rnd drawing the
\* positions picks.
random(L, x, y, width, height, picks) ==
    transformRegion(L, Rectangle(x, y, width, height),
                    [name |-> "random", args |-> picks], TRUE)

\* Tilemap.swap(tileA, tileB, x, y, width, height) on this layer.
swap(L, tileA, tileB, x, y, width, height) ==
    transformRegion(L, Rectangle(x, y, width, height),
                    [name |-> "swap", args |-> <<tileA, tileB>>], TRUE)

\* ---------------------------------------------------------------- Tilemap
\* A Phaser.Tilemap, as far as its layers go: layers is the array of its
\* TileLayers (from index 0) and currentLayer the index of the current one.
Tilemap(layers, currentLayer) == [layers |-> layers, currentLayer |-> currentLayer]

\* Tilemap.getLayer(layerKey) for an omitted key or a number.
getLayer(map, layerKey) ==
    IF layerKey = Undefined THEN map.currentLayer ELSE layerKey[1]

\* Tilemap.getTileLayer(layerKey): this.layers[layerIndex] || null, as the
\* index of the layer.
getTileLayer(map, layerKey) ==
    LET layerIndex == getLayer(map, layerKey) IN
    IF layerIndex \in DOMAIN map.layers THEN <<layerIndex>> ELSE Null

\* Tilemap.setCollision(indexes, collides, layerKey, recalculate); indexes
\* is a number (value holds it) or an array (value is it).  The body
\* resolves `this.getTileLayer(layer)`, and `layer` is the local variable
\* being declared there, still undefined, not the parameter layerKey.
tilemapSetCollision(map, indexes, collides, layerKey, recalculate) ==
    LET collides1 == IF collides = Undefined THEN TRUE ELSE collides[1]
        recalculate1 == IF recalculate = Undefined THEN TRUE ELSE recalculate[1]
        setFor == IF indexes.type = "number" THEN <<indexes.value[1]>>
                  ELSE indexes.value
        found == getTileLayer(map, Undefined)
        collideFlags == IF collides1 THEN COLLIDE_ALL ELSE 0
    IN IF found = Null THEN [map |-> map, threw |-> TRUE]   \* null.setDefault...
       ELSE LET r == setDefaultCollisionFlags(map.layers[found[1]], setFor,
                                              collideFlags, TRUE)
            IN [map |-> [map EXCEPT !.layers[found[1]] =
                           IF ~r.threw /\ recalculate1
                           THEN refreshLayer(r.layer, FALSE) ELSE r.layer],
                threw |-> r.threw]

\* ------------------------------------------------------------------ state
VARIABLES layer, last, held, tilemap
vars == <<layer, last, held, tilemap>>

\* What the caller saw of the last operation: its name and arguments, the
\* value returned, whether it raised, how often it called refreshLayer and
\* which sweeps ran.  oldIndex is the index setCell or clearCell found in
\* the cell (-1 for an empty slot), list the index list of setDefaultCollisionFlags;
\* after tells a refreshLayer call which refreshLayer call, if any, was the
\* operation just before it.  rect is the rectangle passed, fitted the
\* rectangle fitRectInLayer made of it, callback the
\* callback of transformRegion, tiles the tile array a region operation made
\* (for transformRegion, as the callback received it), events the calls
\* transformRegion made, in order.  held is the copy data the caller keeps
\* from its last copyTiles, Null before any.
NoCall ==
    [op |-> "new", x |-> 0, y |-> 0, index |-> 0, force |-> FALSE,
     threw |-> FALSE, ret |-> "undefined", tile |-> Null, oldIndex |-> -1,
     list |-> <<>>, refreshCalls |-> 0, rulePass |-> FALSE, facePass |-> FALSE,
     after |-> "other", rect |-> Null, fitted |-> Null, callback |-> Null,
     tiles |-> <<>>, events |-> <<>>, handler |-> Null, calls |-> <<>>,
     name |-> "", role |-> Null, roleId |-> Undefined, alpha |-> Undefined,
     layerKey |-> Undefined]

Tag(l) ==
    IF l.op = "refreshLayer"
    THEN (IF l.force THEN "refreshLayer(true)" ELSE "refreshLayer(false)")
    ELSE "other"

Call(op) == [NoCall EXCEPT !.op = op]

\* The two sweeps of one refreshLayer(force) call on L, as flags.
rulePassRuns(L, force) == ~applyRulesSkips(L, force)
facePassRuns(L, force) == ~calculateFacesSkips(applyRules(L, force), force)

WithinBounds(L) ==
    L.changeCount <= MaxChangeCount /\ L.ruleChanges <= MaxRuleChanges

\* ------------------------------------------------- arguments of the calls
\* The cells of the layer, and those with the four cells just outside it.
Inside == (0..(layer.width - 1)) \X (0..(layer.height - 1))
Outside == {<<-1, 0>>, <<layer.width, 0>>, <<0, -1>>, <<0, layer.height>>}
Around == Inside \cup Outside
IndexArgs == -1..MaxIndex
Omitted == {<<Undefined, Undefined>>}
RoleAlphaArgs == {<<Undefined, Undefined>>, <<<<1>>, <<0>>>>}
IndexLists == UNION {[1..n -> 0..MaxIndex] : n \in 0..MaxListLen}
OneIndex == [1..1 -> 0..MaxIndex]
\* Source tiles for setCellFromTile: none, a copy of a cell, or a new tile
\* on which the caller has called setCollision(true, false, true, false).
SourceTiles ==
    {Null}
    \cup {getTileCopy(layer, c[1], c[2], TRUE) : c \in Inside}
    \cup {<<setCollision(Tile(i, 0, 0), TRUE, FALSE, TRUE, FALSE)>> : i \in IndexArgs}

slotIndex(slot) == IF slot = Null THEN -1 ELSE slot[1].tileIndex

\* ---------------------------------------------------------------- actions
SetCellCall(c, i, ra) ==
    LET r == setCell(layer, c[1], c[2], i, ra[1], ra[2]) IN
    /\ layer' = r.layer
    /\ last' = [Call("setCell") EXCEPT
                  !.x = c[1], !.y = c[2], !.index = i, !.threw = r.threw,
                  !.roleId = ra[1], !.alpha = ra[2],
                  !.oldIndex = slotIndex(getTileRef(layer, c[1], c[2]))]
    /\ UNCHANGED <<held, tilemap>>

SetCell(Cells, RAS) ==
    \E c \in Cells, i \in IndexArgs, ra \in RAS :
        /\ WithinBounds(setCell(layer, c[1], c[2], i, ra[1], ra[2]).layer)
        /\ SetCellCall(c, i, ra)

SetCellFromTile(Cells) ==
    \E c \in Cells, src \in SourceTiles :
        LET r == setCellFromTile(layer, c[1], c[2], src) IN
        /\ WithinBounds(r.layer)
        /\ layer' = r.layer
        /\ last' = [Call("setCellFromTile") EXCEPT
                      !.x = c[1], !.y = c[2], !.threw = r.threw, !.tile = src,
                      !.index = slotIndex(src)]
        /\ UNCHANGED <<held, tilemap>>

ClearCell(Cells) ==
    \E c \in Cells :
        LET r == clearCell(layer, c[1], c[2]) IN
        /\ WithinBounds(r)
        /\ layer' = r
        /\ last' = [Call("clearCell") EXCEPT
                      !.x = c[1], !.y = c[2],
                      !.oldIndex = slotIndex(getTileRef(layer, c[1], c[2]))]
        /\ UNCHANGED <<held, tilemap>>

HasCell(Cells) ==
    \E c \in Cells :
        /\ layer' = layer
        /\ last' = [Call("hasCell") EXCEPT !.x = c[1], !.y = c[2],
                                           !.ret = hasCell(layer, c[1], c[2])]
        /\ UNCHANGED <<held, tilemap>>

GetTileRef(Cells) ==
    \E c \in Cells :
        LET t == getTileRef(layer, c[1], c[2]) IN
        /\ layer' = layer
        /\ last' = [Call("getTileRef") EXCEPT
                      !.x = c[1], !.y = c[2], !.tile = t,
                      !.ret = IF t = Null THEN "null" ELSE "tile"]
        /\ UNCHANGED <<held, tilemap>>

GetTileCopy(Cells) ==
    \E c \in Cells, forceMaterialize \in BOOLEAN :
        LET t == getTileCopy(layer, c[1], c[2], forceMaterialize) IN
        /\ layer' = layer
        /\ last' = [Call("getTileCopy") EXCEPT
                      !.x = c[1], !.y = c[2], !.force = forceMaterialize,
                      !.tile = t, !.ret = IF t = Null THEN "null" ELSE "tile"]
        /\ UNCHANGED <<held, tilemap>>

RoleNames == {"a", "b", "c"}

CreateTileRole ==
    \E roleName \in RoleNames :
        LET r == createTileRole(layer, roleName) IN
        /\ Len(r.layer.roleData) - 1 <= MaxRoles
        /\ layer' = r.layer
        /\ last' = [Call("createTileRole") EXCEPT !.name = roleName, !.role = r.role]
        /\ UNCHANGED <<held, tilemap>>

GetTileRole ==
    \E roleName \in RoleNames :
        /\ layer' = layer
        /\ last' = [Call("getTileRole") EXCEPT
                      !.name = roleName, !.role = getTileRole(layer, roleName)]
        /\ UNCHANGED <<held, tilemap>>

\* copy = getTileCopy(x, y, forceMaterialize), kept by the caller.
KeepTileCopy(Cells) ==
    \E c \in Cells, forceMaterialize \in BOOLEAN :
        LET t == getTileCopy(layer, c[1], c[2], forceMaterialize) IN
        /\ layer' = layer
        /\ last' = [Call("getTileCopy") EXCEPT
                      !.x = c[1], !.y = c[2], !.force = forceMaterialize,
                      !.tile = t, !.ret = IF t = Null THEN "null" ELSE "tile"]
        /\ UNCHANGED tilemap
        /\ held' = <<[copy |-> t]>>

\* The properties object of the kept copy is the one of the stored tile.
sharesProperties(L, copy) ==
    /\ copy.properties # Undefined
    /\ copy.properties[1].cell
    /\ L.data[copy.y][copy.x] # Null
    /\ L.data[copy.y][copy.x][1].properties # Undefined

\* The caller changes the copy it keeps: copy.index = 1 or -1,
\* copy.alpha = 0, copy.setCollision(...), copy.setCollisionTest(...) or
\* copy.properties.key = "changed" ("again" if it is "changed").
ChangeCopy ==
    \E kind \in {"index", "reset", "alpha", "setCollision", "setCollisionTest",
                  "properties"} :
        LET copy == held[1].copy[1]
            value == IF copy.properties # Undefined
                        /\ copy.properties[1].value = "changed"
                     THEN "again" ELSE "changed"
            changed ==
                CASE kind = "index" -> setIndex(layer, copy, 1 - copy.tileIndex)
                  [] kind = "reset" -> setIndex(layer, copy, -1)
                  [] kind = "alpha" -> [copy EXCEPT !.alpha = 1 - @]
                  [] kind = "setCollision" ->
                       setCollision(copy, ~collideLeft(copy), FALSE, TRUE, FALSE)
                  [] kind = "setCollisionTest" ->
                       setCollisionTest(copy, <<"callback">>, Undefined, <<>>)
                  [] kind = "properties" -> setProperty(copy, value)
        IN
        /\ held # Null /\ held[1].copy # Null
        /\ layer' = IF kind = "properties" /\ sharesProperties(layer, copy)
                    THEN storeCell(layer, copy.x, copy.y,
                                   <<setProperty(layer.data[copy.y][copy.x][1],
                                                 value)>>)
                    ELSE layer
        /\ UNCHANGED tilemap
        /\ held' = <<[copy |-> <<changed>>]>>
        /\ last' = [Call("copy.change") EXCEPT
                      !.x = copy.x, !.y = copy.y, !.ret = kind,
                      !.after = IF last.op = "setCellFromTile"
                                THEN "setCellFromTile" ELSE "other"]

\* copyFrom makes the target's properties the object of the source: the
\* source is expanded and has a properties object, and the locations are
\* the same.
takesProperties(x, y, srcTile) ==
    /\ srcTile.expanded /\ srcTile.properties # Undefined
    /\ x = srcTile.x /\ y = srcTile.y

\* layer.setCellFromTile(x, y, copy) with the tile the caller keeps, which
\* the caller goes on keeping.
SetCellFromHeld(Cells) ==
    \E c \in Cells :
        LET src == held[1].copy
            r == setCellFromTile(layer, c[1], c[2], src)
        IN
        /\ held # Null
        /\ layer' = r.layer
        /\ last' = [Call("setCellFromTile") EXCEPT
                      !.x = c[1], !.y = c[2], !.threw = r.threw, !.tile = src,
                      !.index = slotIndex(src)]
        /\ UNCHANGED tilemap
        /\ held' = IF /\ src # Null /\ src[1].tileIndex > -1 /\ ~r.threw
                      /\ takesProperties(c[1], c[2], src[1])
                   THEN <<[copy |-> <<stored(src[1])>>]>>
                   ELSE held

\* tile = getTileRef(x, y); tile.properties.key = "set"
TileRefSetProperty ==
    \E c \in Inside :
        /\ getTileRef(layer, c[1], c[2]) # Null
        /\ layer' = storeCell(layer, c[1], c[2],
                              <<stored(setProperty(getTileRef(layer, c[1], c[2])[1],
                                                   "set"))>>)
        /\ last' = [Call("tile.properties") EXCEPT !.x = c[1], !.y = c[2]]
        /\ UNCHANGED <<held, tilemap>>

\* tile = getTileRef(x, y); tile.debug = value
TileRefSetDebug ==
    \E c \in Inside, value \in BOOLEAN :
        /\ getTileRef(layer, c[1], c[2]) # Null
        /\ layer' = storeCell(layer, c[1], c[2],
                              <<setDebug(getTileRef(layer, c[1], c[2])[1], value)>>)
        /\ last' = [Call("tile.debug") EXCEPT !.x = c[1], !.y = c[2]]
        /\ UNCHANGED <<held, tilemap>>

\* tile = getTileRef(x, y); tile.index = i
TileRefSetIndex ==
    \E c \in Inside, i \in IndexArgs :
        /\ getTileRef(layer, c[1], c[2]) # Null
        /\ layer' = storeCell(layer, c[1], c[2],
                              <<setIndex(layer, getTileRef(layer, c[1], c[2])[1], i)>>)
        /\ last' = [Call("tile.index") EXCEPT
                      !.x = c[1], !.y = c[2], !.index = i,
                      !.oldIndex = slotIndex(getTileRef(layer, c[1], c[2]))]
        /\ UNCHANGED <<held, tilemap>>

\* What setCollisionTest may be passed: a callback or null, a context or
\* none, and up to two extra arguments.
CallbackArgs == {Null, <<"callback">>}
ContextArgs == {Undefined, <<"context">>}
ExtraArgs == {<<>>, <<"e1">>, <<"e1", "e2">>}

\* tile = getTileRef(x, y); tile.setCollisionTest(callback, context, ...args)
TileRefSetCollisionTest ==
    \E c \in Inside, callback \in CallbackArgs, context \in ContextArgs,
       args \in ExtraArgs :
        /\ getTileRef(layer, c[1], c[2]) # Null
        /\ layer' = storeCell(layer, c[1], c[2],
                              <<setCollisionTest(getTileRef(layer, c[1], c[2])[1],
                                                 callback, context, args)>>)
        /\ last' = [Call("tile.setCollisionTest") EXCEPT
                      !.x = c[1], !.y = c[2],
                      !.handler = <<[callback |-> callback, context |-> context,
                                     args |-> args]>>]
        /\ UNCHANGED <<held, tilemap>>

\* tile = getTileRef(x, y); tile.doTileCollisionTest(collider)
TileRefDoTileCollisionTest ==
    \E c \in Inside :
        /\ getTileRef(layer, c[1], c[2]) # Null
        /\ layer' = layer
        /\ LET r == doTileCollisionTest(getTileRef(layer, c[1], c[2])[1], "collider")
           IN last' = [Call("tile.doTileCollisionTest") EXCEPT
                         !.x = c[1], !.y = c[2], !.ret = r.ret, !.calls = r.calls,
                         !.handler = IF last.op = "tile.setCollisionTest"
                                        /\ last.x = c[1] /\ last.y = c[2]
                                     THEN last.handler ELSE Null]
        /\ UNCHANGED <<held, tilemap>>

SetDefaultCollisionFlags(Lists, Flags) ==
    \E tileIndexes \in Lists, collideFlags \in Flags, applyImmediately \in BOOLEAN :
        LET r == setDefaultCollisionFlags(layer, tileIndexes, collideFlags,
                                          applyImmediately)
            m == setDefaultLoop(layer, tileIndexes, 1, collideMask(collideFlags)).layer
            refreshes == ~r.threw /\ applyImmediately
        IN
        /\ WithinBounds(r.layer)
        /\ layer' = r.layer
        /\ last' = [Call("setDefaultCollisionFlags") EXCEPT
                      !.index = collideFlags, !.list = tileIndexes,
                      !.force = applyImmediately, !.threw = r.threw,
                      !.refreshCalls = IF refreshes THEN 1 ELSE 0,
                      !.rulePass = refreshes /\ rulePassRuns(m, FALSE),
                      !.facePass = refreshes /\ facePassRuns(m, FALSE)]
        /\ UNCHANGED <<held, tilemap>>

RefreshLayerCall(force) ==
    /\ layer' = refreshLayer(layer, force)
    /\ last' = [Call("refreshLayer") EXCEPT
                  !.force = force, !.refreshCalls = 1, !.after = Tag(last),
                  !.rulePass = rulePassRuns(layer, force),
                  !.facePass = facePassRuns(layer, force)]
    /\ UNCHANGED <<held, tilemap>>

RefreshLayer ==
    \E force \in BOOLEAN :
        /\ WithinBounds(refreshLayer(layer, force))
        /\ RefreshLayerCall(force)

\* The first refresh of a layer that was filled before the refresh engine
\* ever ran.
RefreshSeeded ==
    \E force \in BOOLEAN :
        /\ last.op = "new"
        /\ RefreshLayerCall(force)

ApplyRulesCall(force) ==
    /\ layer' = applyRules(layer, force)
    /\ last' = [Call("applyRules") EXCEPT
                  !.force = force, !.rulePass = rulePassRuns(layer, force)]
    /\ UNCHANGED <<held, tilemap>>

ApplyRules ==
    \E force \in BOOLEAN :
        /\ WithinBounds(applyRules(layer, force))
        /\ ApplyRulesCall(force)

CalculateFaces ==
    \E force \in BOOLEAN :
        /\ layer' = calculateFaces(layer, force)
        /\ last' = [Call("calculateFaces") EXCEPT
                      !.force = force,
                      !.facePass = ~calculateFacesSkips(layer, force)]
        /\ UNCHANGED <<held, tilemap>>

\* layer.suppressRefresh = suppress; ret records the value it had.
SetSuppressRefresh ==
    \E suppress \in BOOLEAN :
        LET n == setSuppressRefreshCalls(layer, suppress)
            m == [layer EXCEPT !.suppressRefresh = FALSE]
            r == setSuppressRefresh(layer, suppress)
        IN
        /\ WithinBounds(r)
        /\ layer' = r
        /\ last' = [Call("suppressRefresh") EXCEPT
                      !.force = suppress, !.refreshCalls = n,
                      !.ret = IF layer.suppressRefresh THEN "true" ELSE "false",
                      !.rulePass = n > 0 /\ rulePassRuns(m, FALSE),
                      !.facePass = n > 0 /\ facePassRuns(m, FALSE)]
        /\ UNCHANGED <<held, tilemap>>

\* The tiles transformRegion hands to its callback.
callbackTiles(rect, forceMaterialize) ==
    LET r == fitRectInLayer(layer, rect) IN
    getTilesEx(layer, r.x, r.y, r.width, r.height, forceMaterialize, FALSE)

\* What a callback may assign to tile.index; Undefined to leave the tile.
AssignValues == {Undefined, <<-1>>, <<0>>, <<1>>}

RegionCall(op, rect, callback, forceMaterialize, r) ==
    /\ layer' = r.layer
    /\ last' = [Call(op) EXCEPT
                  !.rect = <<rect>>, !.fitted = <<r.rect>>,
                  !.callback = <<callback>>, !.force = forceMaterialize,
                  !.threw = r.threw, !.tiles = r.tiles, !.events = r.events]
    /\ UNCHANGED <<held, tilemap>>

\* transformRegion with a callback that assigns indexes.
TransformRegion(Rects) ==
    \E rect \in Rects, forceMaterialize \in BOOLEAN :
        \E values \in [DOMAIN callbackTiles(rect, forceMaterialize) -> AssignValues] :
            LET callback == [name |-> "assign", args |-> values] IN
            RegionCall("transformRegion", rect, callback, forceMaterialize,
                       transformRegion(layer, rect, callback, forceMaterialize))

Fill(Rects) ==
    \E rect \in Rects, index \in IndexArgs :
        RegionCall("fill", rect, [name |-> "fill", args |-> index], TRUE,
                   fill(layer, index, rect.x, rect.y, rect.width, rect.height))

Shuffle(Rects) ==
    \E rect \in Rects :
        \E perm \in Permutations(DOMAIN callbackTiles(rect, TRUE)) :
            RegionCall("shuffle", rect, [name |-> "shuffle", args |-> perm], TRUE,
                       shuffle(layer, rect.x, rect.y, rect.width, rect.height, perm))

Random(Rects) ==
    \E rect \in Rects :
        LET tiles == callbackTiles(rect, TRUE)
            n == Len(randomIndexes(tiles, 1, <<>>))
        IN \E picks \in [DOMAIN tiles -> 1..Max(n, 1)] :
            RegionCall("random", rect, [name |-> "random", args |-> picks], TRUE,
                       random(layer, rect.x, rect.y, rect.width, rect.height, picks))

\* copyData = layer.copyTiles(rect, undefined, forceMaterialize); with
\* addBuffer the caller then sets copyData.buffer = copyData.tiles.
Swap(Rects, Indexes) ==
    \E rect \in Rects, tileA \in Indexes, tileB \in Indexes :
        RegionCall("swap", rect, [name |-> "swap", args |-> <<tileA, tileB>>], TRUE,
                   swap(layer, tileA, tileB, rect.x, rect.y, rect.width, rect.height))

\* layer.getTilesEx(x, y, width, height, buffer, forceMaterialize, forceCopy)
GetTilesEx(Rects, Buffers) ==
    \E rect \in Rects, buffer \in Buffers, forceMaterialize \in BOOLEAN,
       forceCopy \in BOOLEAN :
        /\ layer' = layer
        /\ last' = [Call("getTilesEx") EXCEPT
                      !.rect = <<rect>>, !.force = forceMaterialize,
                      !.tiles = reuseBuffer(buffer,
                                  getTilesEx(layer, rect.x, rect.y, rect.width,
                                             rect.height, forceMaterialize,
                                             forceCopy))]
        /\ UNCHANGED <<held, tilemap>>

\* layer.getExistingTiles(x, y, width, height, buffer, anyMask)
GetExistingTiles(Rects, Buffers, Masks) ==
    \E rect \in Rects, buffer \in Buffers, anyMask \in Masks :
        /\ layer' = layer
        /\ last' = [Call("getExistingTiles") EXCEPT
                      !.rect = <<rect>>, !.index = anyMask,
                      !.tiles = reuseBuffer(buffer,
                                  getExistingTiles(layer, rect.x, rect.y, rect.width,
                                                   rect.height, anyMask))]
        /\ UNCHANGED <<held, tilemap>>

CopyTiles(Rects, AddBuffer) ==
    \E rect \in Rects, forceMaterialize \in BOOLEAN, addBuffer \in AddBuffer :
        LET copyData == copyTiles(layer, rect, forceMaterialize) IN
        /\ layer' = layer
        /\ last' = [Call("copyTiles") EXCEPT
                      !.rect = <<rect>>, !.fitted = <<copyData.rect>>,
                      !.force = forceMaterialize, !.tiles = copyData.tiles]
        /\ UNCHANGED tilemap
        /\ held' = IF addBuffer
                   THEN <<copyData @@ [buffer |-> copyData.tiles]>>
                   ELSE <<copyData>>

\* layer.pasteTiles(copyData, x, y) with the copy data held, at the given
\* origin or, with x and y omitted, the default one.
PasteTiles(Origins) ==
    \E xy \in Origins \cup Omitted :
        LET r == pasteTiles(layer, held, xy[1], xy[2]) IN
        /\ held # Null
        /\ layer' = r.layer
        /\ last' = [Call("pasteTiles") EXCEPT
                      !.x = IF xy[1] = Undefined THEN 0 ELSE xy[1][1],
                      !.y = IF xy[2] = Undefined THEN 0 ELSE xy[2][1],
                      !.force = xy \in Omitted,
                      !.threw = r.threw, !.ret = r.ret, !.index = r.pasteCount,
                      !.rect = <<held[1].rect>>, !.tiles = held[1].tiles]
        /\ UNCHANGED <<held, tilemap>>

\* The element is the object stored in its cell: it was handed out live and
\* the cell still holds a tile.
isStored(L, element) ==
    /\ element # Null
    /\ element[1].live
    /\ L.data[element[1].t.y][element[1].t.x] # Null

\* The tiles of copy data as their holder reads them.
heldTiles(L, copyData) ==
    [k \in DOMAIN copyData.tiles |->
        LET element == copyData.tiles[k] IN
        IF element = Null THEN Null
        ELSE IF isStored(L, element)
        THEN L.data[element[1].t.y][element[1].t.x]
        ELSE <<element[1].t>>]

\* copyData.tiles[k].index = i, by the holder of the copy data.
SetHeldIndex ==
    \E k \in DOMAIN held[1].tiles, i \in IndexArgs :
        LET element == held[1].tiles[k]
            tile == heldTiles(layer, held[1])[k]
        IN
        /\ element # Null
        /\ layer' = IF isStored(layer, element)
                    THEN storeCell(layer, tile[1].x, tile[1].y,
                                   <<setIndex(layer, tile[1], i)>>)
                    ELSE layer
        /\ UNCHANGED tilemap
        /\ held' = <<[held[1] EXCEPT !.tiles[k] =
                        Element(element[1].live, setIndex(layer, tile[1], i))]>>
        /\ last' = [Call("snapshot.index") EXCEPT
                      !.index = i, !.x = k,
                      !.after = IF last.op = "copyTiles" THEN "copyTiles"
                                ELSE Tag(last)]

FitRectInLayer(Rects) ==
    \E rect \in Rects :
        /\ layer' = layer
        /\ last' = [Call("fitRectInLayer") EXCEPT
                      !.rect = <<rect>>, !.fitted = <<fitRectInLayer(layer, rect)>>]
        /\ UNCHANGED <<held, tilemap>>

\* tilemap.setCollision(indexes, collides, layerKey, recalculate)
TilemapSetCollision(Indexes, LayerKeys) ==
    \E indexes \in Indexes, collides \in {Undefined, <<TRUE>>, <<FALSE>>},
       layerKey \in LayerKeys, recalculate \in {Undefined, <<FALSE>>} :
        LET r == tilemapSetCollision(tilemap, indexes, collides, layerKey,
                                     recalculate)
        IN
        /\ tilemap' = r.map
        /\ last' = [Call("tilemap.setCollision") EXCEPT
                      !.layerKey = layerKey, !.threw = r.threw,
                      !.list = indexes.value]
        /\ UNCHANGED <<layer, held>>

\* --------------------------------------------------------- specifications
\* Cell access: a layer of two cells side by side, and every cell operation
\* with coordinates inside and just outside the layer.
InitCells ==
    /\ layer = TileLayer(2, 1)
    /\ last = NoCall
    /\ held = Null
    /\ tilemap = Null

NextCells ==
    \/ SetCell(Around, RoleAlphaArgs)
    \/ SetCellFromTile(Around)
    \/ ClearCell(Around)
    \/ HasCell(Around)
    \/ GetTileRef(Around)
    \/ GetTileCopy(Around)
    \/ TileRefSetIndex

SpecCells == InitCells /\ [][NextCells]_vars

\* Rules and refresh: a row of two cells, cell writes inside the layer, and
\* default collision flags (all sides) for one index at a time.
RefreshFlagArgs == {15}

Init ==
    /\ layer = TileLayer(2, 1)
    /\ last = NoCall
    /\ held = Null
    /\ tilemap = Null

Next ==
    \/ SetCell(Inside, Omitted)
    \/ SetDefaultCollisionFlags(OneIndex, RefreshFlagArgs)
    \/ RefreshLayer
    \/ ApplyRules
    \/ CalculateFaces
    \/ SetSuppressRefresh

Spec == Init /\ [][Next]_vars

\* Default collision flags: a single cell, and every list of indexes with
\* every flag value, zero included.
CollideFlagArgs == {0, 15, 22}

InitRules ==
    /\ layer = TileLayer(1, 1)
    /\ last = NoCall
    /\ held = Null
    /\ tilemap = Null

NextRules ==
    \/ SetDefaultCollisionFlags(IndexLists, CollideFlagArgs)
    \/ SetCell(Inside, Omitted)
    \/ SetSuppressRefresh

SpecRules == InitRules /\ [][NextRules]_vars

\* Face calculation: every way to fill a row, a column or a square of cells
\* with empty slots, tiles of index 0 colliding on chosen sides, and tiles of
\* index 1 that take their sides from the index rule (if there is one);
\* then one refresh.
FaceDims == {<<3, 1>>, <<1, 3>>, <<2, 2>>}

\* <<left, right, up, down>>
CollideSides ==
    {<<FALSE, FALSE, FALSE, FALSE>>, <<TRUE, TRUE, TRUE, TRUE>>,
     <<TRUE, FALSE, FALSE, TRUE>>, <<FALSE, TRUE, TRUE, FALSE>>}

SeedTiles ==
    {Null, <<Tile(1, 0, 0)>>}
    \cup {<<setCollision(Tile(0, 0, 0), s[1], s[2], s[3], s[4])>> : s \in CollideSides}

\* No rule, or the collideFlags of the rule of index 1.
SeedRules == {Null, <<15>>, <<5>>}

\* setCellFromTile(x, y, seeds[k]) for the cells k.. in row order.
RECURSIVE seedLayer(_, _, _)
seedLayer(L, seeds, k) ==
    IF k > Len(seeds) THEN L
    ELSE seedLayer(setCellFromTile(L, (k - 1) % L.width, (k - 1) \div L.width,
                                   seeds[k]).layer,
                   seeds, k + 1)

InitFaces ==
    \E d \in FaceDims, rule \in SeedRules :
        \E seeds \in [1..(d[1] * d[2]) -> SeedTiles] :
            /\ layer = seedLayer(
                         IF rule = Null THEN TileLayer(d[1], d[2])
                         ELSE setDefaultCollisionFlags(TileLayer(d[1], d[2]),
                                                       <<1>>, rule[1], FALSE).layer,
                         seeds, 1)
            /\ last = NoCall
            /\ held = Null
            /\ tilemap = Null

NextFaces ==
    \/ RefreshSeeded

SpecFaces == InitFaces /\ [][NextFaces]_vars

\* Region operations: one region operation, or one copyTiles and one
\* pasteTiles, on every layer made as follows.  Each cell is left empty
\* (seed -2), set to index 0 or 1 by setCell, or set and then made
\* non-existent through its reference (tile.index = -1, seed -1); index 1
\* has no rule, or an all-sides rule given and applied before the cells are
\* set ("before") or after it ("after").
RegionDims == {<<2, 1>>, <<1, 2>>, <<3, 1>>}
CellSeeds == {-2, -1, 0, 1}
RuleSeeds == {"none", "before", "after"}

RegionRects ==
    {Rectangle(x, y, w, h) : x \in -1..1, y \in -1..0, w \in {1, 3}, h \in 1..2}

\* The rectangles copied for pasting: along the first row, and the first
\* column.
CopyRects ==
    {Rectangle(x, 0, w, 1) : x \in -1..1, w \in {1, 3}} \cup {Rectangle(0, 0, 1, 2)}

PasteOrigins == {<<<<x>>, <<y>>>> : x \in -1..1, y \in 0..1}

\* The cells k.. in row order, seeded.
RECURSIVE seedCells(_, _, _)
seedCells(L, seeds, k) ==
    IF k > Len(seeds) THEN L
    ELSE LET x == (k - 1) % L.width
             y == (k - 1) \div L.width
             set == setCell(L, x, y, Max(seeds[k], 0), Undefined, Undefined).layer
         IN seedCells(IF seeds[k] = -2 THEN L
                      ELSE IF seeds[k] = -1
                      THEN storeCell(set, x, y,
                                     <<setIndex(set, getTileRef(set, x, y)[1], -1)>>)
                      ELSE set,
                      seeds, k + 1)

seededLayer(d, seeds, rule) ==
    LET new == TileLayer(d[1], d[2]) IN
    CASE rule = "none" -> seedCells(new, seeds, 1)
      [] rule = "before" ->
           seedCells(setDefaultCollisionFlags(new, <<1>>, COLLIDE_ALL, TRUE).layer,
                     seeds, 1)
      [] rule = "after" ->
           setDefaultCollisionFlags(seedCells(new, seeds, 1), <<1>>, COLLIDE_ALL,
                                    TRUE).layer

InitRegion ==
    \E d \in RegionDims, rule \in RuleSeeds :
        \E seeds \in [1..(d[1] * d[2]) -> CellSeeds] :
            /\ layer = seededLayer(d, seeds, rule)
            /\ last = NoCall
            /\ held = Null
            /\ tilemap = Null

FirstTransformRegion == last.op = "new" /\ TransformRegion(RegionRects)
FirstFill == last.op = "new" /\ Fill(RegionRects)
FirstShuffle == last.op = "new" /\ Shuffle(RegionRects)
FirstRandom == last.op = "new" /\ Random(RegionRects)
FirstCopyTiles == last.op = "new" /\ CopyTiles(CopyRects, BOOLEAN)
PasteCopied == last.op = "copyTiles" /\ PasteTiles(PasteOrigins)

NextRegion ==
    \/ FirstTransformRegion
    \/ FirstFill
    \/ FirstShuffle
    \/ FirstRandom
    \/ FirstCopyTiles
    \/ PasteCopied

SpecRegion == InitRegion /\ [][NextRegion]_vars

\* Tiles: one cell, empty or written with index 0 or 1, with or without a
\* role and alpha, before or after one index got a rule with one of two
\* masks (or none did); then one setCell, or the stored tile given an index
\* or a collision test (after its debug flag, or not) and, after that, given
\* an index or asked to run its test; and at the end one applyRules.
TileFlagArgs == {5, 15}
TileCellSeeds == {Null} \cup {<<[index |-> i, ra |-> ra]>> : i \in 0..1, ra \in RoleAlphaArgs}
TileRuleSeeds == {Null} \cup {<<[index |-> i, flags |-> f]>> : i \in 0..1, f \in TileFlagArgs}

seedTileRule(L, rule) ==
    IF rule = Null THEN L
    ELSE setDefaultCollisionFlags(L, <<rule[1].index>>, rule[1].flags, TRUE).layer

seedTileCell(L, cell) ==
    IF cell = Null THEN L
    ELSE setCell(L, 0, 0, cell[1].index, cell[1].ra[1], cell[1].ra[2]).layer

InitTile ==
    \E cell \in TileCellSeeds, rule \in TileRuleSeeds, ruleFirst \in BOOLEAN :
        /\ layer = IF ruleFirst
                   THEN seedTileCell(seedTileRule(TileLayer(1, 1), rule), cell)
                   ELSE seedTileRule(seedTileCell(TileLayer(1, 1), cell), rule)
        /\ last = NoCall
        /\ held = Null
        /\ tilemap = Null

AfterDebug == last.op \in {"new", "tile.debug"}
AfterTest == last.op \in {"new", "tile.setCollisionTest"}

SetCellSeeded ==
    /\ last.op = "new"
    /\ \E c \in Inside, i \in IndexArgs, ra \in RoleAlphaArgs : SetCellCall(c, i, ra)
SetDebugSeeded == last.op = "new" /\ TileRefSetDebug
SetCollisionTestSeeded == AfterDebug /\ TileRefSetCollisionTest
SetIndexAfterTest == AfterTest /\ TileRefSetIndex
DoTileCollisionTestAfterTest == AfterTest /\ TileRefDoTileCollisionTest
ApplyRulesAtEnd ==
    /\ last.op # "applyRules"
    /\ \E force \in BOOLEAN : ApplyRulesCall(force)

NextTile ==
    \/ SetCellSeeded
    \/ SetDebugSeeded
    \/ SetCollisionTestSeeded
    \/ SetIndexAfterTest
    \/ DoTileCollisionTestAfterTest
    \/ ApplyRulesAtEnd

SpecTile == InitTile /\ [][NextTile]_vars

\* Tile copies: the seeded cell of the tile specification, whose stored
\* tile may get a property and a collision test; then getTileCopy of the
\* cell or of a cell outside the layer, and one change of the copy.
InitCopy == InitTile

SetPropertySeeded == last.op = "new" /\ TileRefSetProperty
SetCollisionTestBeforeCopy ==
    last.op \in {"new", "tile.properties"} /\ TileRefSetCollisionTest
GetTileCopySeeded ==
    /\ last.op \in {"new", "tile.properties", "tile.setCollisionTest"}
    /\ KeepTileCopy(Around)
ChangeCopyOnce == last.op = "getTileCopy" /\ ChangeCopy

NextCopy ==
    \/ SetPropertySeeded
    \/ SetCollisionTestBeforeCopy
    \/ GetTileCopySeeded
    \/ ChangeCopyOnce

SpecCopy == InitCopy /\ [][NextCopy]_vars

\* The change counter: one cell, every cell write, rule changes for one
\* index, and every kind of refresh.
InitChanges ==
    /\ layer = TileLayer(1, 1)
    /\ last = NoCall
    /\ held = Null
    /\ tilemap = Null

NextChanges ==
    \/ SetCell(Inside, Omitted)
    \/ SetCellFromTile(Inside)
    \/ ClearCell(Inside)
    \/ SetDefaultCollisionFlags(OneIndex, RefreshFlagArgs)
    \/ RefreshLayer
    \/ ApplyRules
    \/ CalculateFaces

SpecChanges == InitChanges /\ [][NextChanges]_vars

\* Roles: a new layer, and roles created and looked up under three names.
InitRoles ==
    /\ layer = TileLayer(1, 1)
    /\ last = NoCall
    /\ held = Null
    /\ tilemap = Null

NextRoles ==
    \/ CreateTileRole
    \/ GetTileRole

SpecRoles == InitRoles /\ [][NextRoles]_vars

\* Face sweeps: every way to fill a row or a column of two cells with the
\* seeds of the face specification or a tile that collides on all sides and
\* has a role, an alpha and a collision test; then calculateFaces calls.
SweepDims == {<<2, 1>>, <<1, 2>>}

SweepTiles ==
    SeedTiles
    \cup {<<setCollisionTest([setCollision(Tile(0, 0, 0), TRUE, TRUE, TRUE, TRUE)
                                EXCEPT !.roleId = 1, !.alpha = 0],
                             <<"callback">>, Undefined, <<>>)>>}

InitSweep ==
    \E d \in SweepDims, rule \in SeedRules :
        \E seeds \in [1..(d[1] * d[2]) -> SweepTiles] :
            /\ layer = seedLayer(
                         IF rule = Null THEN TileLayer(d[1], d[2])
                         ELSE setDefaultCollisionFlags(TileLayer(d[1], d[2]),
                                                       <<1>>, rule[1], FALSE).layer,
                         seeds, 1)
            /\ last = NoCall
            /\ held = Null
            /\ tilemap = Null

NextSweep ==
    \/ CalculateFaces

SpecSweep == InitSweep /\ [][NextSweep]_vars

\* Two refreshes in a row: the layers of the sweep specification, one
\* refreshLayer with either argument, then one refreshLayer(true).
RefreshAgain ==
    /\ last.op = "refreshLayer"
    /\ last.after = "other"
    /\ RefreshLayerCall(TRUE)

NextForced ==
    \/ RefreshSeeded
    \/ RefreshAgain

SpecForced == InitSweep /\ [][NextForced]_vars

\* Region reads: a row or a column of two cells, each empty or holding a
\* tile of index 0 or a colliding tile of index 1; a stored tile may be
\* given an index and then a debug flag through its reference; then one
\* getTilesEx or getExistingTiles call over rectangles in and across the
\* edges, with no buffer, a shorter one or a longer one.
QueryDims == {<<2, 1>>, <<1, 2>>}
QueryTiles ==
    {Null, <<Tile(0, 0, 0)>>, <<setCollision(Tile(1, 0, 0), TRUE, TRUE, TRUE, TRUE)>>}
QueryRects ==
    {Rectangle(x, y, w, h) : x \in -1..1, y \in -1..1, w \in 1..2, h \in 1..2}
    \cup {Rectangle(0, 0, 0, 0)}
StaleTile == Tile(1, 0, 0)
ElementBuffers ==
    {Null, <<<<Null>>>>,
     <<<<Element(FALSE, StaleTile), Element(FALSE, StaleTile),
         Element(FALSE, StaleTile)>>>>}
TileBuffers == {Null, <<<<Null>>>>, <<<<<<StaleTile>>, <<StaleTile>>, <<StaleTile>>>>>>}
QueryMasks == {COLLIDE_ALL, DEBUG, COLLIDE_ALL + DEBUG}

InitQuery ==
    \E d \in QueryDims :
        \E seeds \in [1..(d[1] * d[2]) -> QueryTiles] :
            /\ layer = seedLayer(TileLayer(d[1], d[2]), seeds, 1)
            /\ last = NoCall
            /\ held = Null
            /\ tilemap = Null

BeforeQuery == last.op \in {"new", "tile.index", "tile.debug"}

SetIndexSeeded == last.op = "new" /\ TileRefSetIndex
SetDebugBeforeQuery == last.op \in {"new", "tile.index"} /\ TileRefSetDebug
GetTilesExOnce == BeforeQuery /\ GetTilesEx(QueryRects, ElementBuffers)
GetExistingTilesOnce ==
    BeforeQuery /\ GetExistingTiles(QueryRects, TileBuffers, QueryMasks)

NextQuery ==
    \/ SetIndexSeeded
    \/ SetDebugBeforeQuery
    \/ GetTilesExOnce
    \/ GetExistingTilesOnce

SpecQuery == InitQuery /\ [][NextQuery]_vars

\* Source tiles: a row of two cells, the first empty or holding a tile with
\* or without a role and alpha; the caller takes a copy of a cell, may
\* change it, writes it into a cell with setCellFromTile and then changes it
\* once more.
SourceSeeds == {Null} \cup {<<[index |-> 0, ra |-> ra]>> : ra \in RoleAlphaArgs}

InitSource ==
    \E cell \in SourceSeeds :
        /\ layer = seedTileCell(TileLayer(2, 1), cell)
        /\ last = NoCall
        /\ held = Null
        /\ tilemap = Null

SourceKept ==
    \/ last.op = "getTileCopy"
    \/ last.op = "copy.change" /\ last.after = "other"

KeepSource == last.op = "new" /\ KeepTileCopy(Inside)
ChangeSource == last.op = "getTileCopy" /\ ChangeCopy
SetCellFromSource == SourceKept /\ SetCellFromHeld(Inside)
ChangeSourceAfter == last.op = "setCellFromTile" /\ ChangeCopy

NextSource ==
    \/ KeepSource
    \/ ChangeSource
    \/ SetCellFromSource
    \/ ChangeSourceAfter

SpecSource == InitSource /\ [][NextSource]_vars

\* Tilemaps: two layers of one cell, each with or without a tile of index 0
\* and with or without a rule for index 0, either of them current; then one
\* setCollision call for one index or two, with the layer named or omitted.
MapLayerSeeds ==
    {seedTileRule(seedTileCell(TileLayer(1, 1), cell), rule) :
        cell \in {Null, <<[index |-> 0, ra |-> <<Undefined, Undefined>>]>>},
        rule \in {Null, <<[index |-> 0, flags |-> 15]>>}}
MapIndexes ==
    {[type |-> "number", value |-> <<0>>], [type |-> "number", value |-> <<1>>],
     [type |-> "array", value |-> <<0, 1>>]}
MapLayerKeys == {Undefined, <<0>>, <<1>>}

InitMap ==
    \E first \in MapLayerSeeds, second \in MapLayerSeeds, currentLayer \in 0..1 :
        /\ tilemap = Tilemap([k \in 0..1 |-> IF k = 0 THEN first ELSE second],
                             currentLayer)
        /\ layer = TileLayer(1, 1)
        /\ last = NoCall
        /\ held = Null

SetCollisionSeeded == last.op = "new" /\ TilemapSetCollision(MapIndexes, MapLayerKeys)

NextMap ==
    \/ SetCollisionSeeded

SpecMap == InitMap /\ [][NextMap]_vars

\* The grid: a new row of two cells, and any sequence of cell writes,
\* transformRegion calls and, after one copyTiles whose result the caller
\* completes with the buffer member, pasteTiles calls.
InitGrid ==
    /\ layer = TileLayer(2, 1)
    /\ last = NoCall
    /\ held = Null
    /\ tilemap = Null

GridRects == {Rectangle(0, 0, 2, 1)}

TransformRegionBounded == TransformRegion(GridRects) /\ WithinBounds(layer')
CopyOnce == held = Null /\ CopyTiles(GridRects, {TRUE})
PasteBounded == PasteTiles({<<<<0>>, <<0>>>>, <<<<1>>, <<0>>>>}) /\ WithinBounds(layer')

NextGrid ==
    \/ SetCell(Inside, Omitted)
    \/ SetCellFromTile(Inside)
    \/ ClearCell(Inside)
    \/ TransformRegionBounded
    \/ CopyOnce
    \/ PasteBounded

SpecGrid == InitGrid /\ [][NextGrid]_vars

\* Tilemap shuffles and draws: a row of three cells and a column of two,
\* seeded with absent cells, stored non-existent tiles and the indexes 0 to
\* 2, and one shuffle, random or swap call over rectangles in and across the
\* edges.
TilemapDims == {<<3, 1>>, <<1, 2>>}
TilemapSeeds == {-2, -1, 0, 1, 2}
TilemapRules == {"none", "after"}

TilemapRects ==
    {Rectangle(x, 0, w, h) : x \in -1..1, w \in 1..3, h \in 1..2}

InitTilemap ==
    \E d \in TilemapDims, rule \in TilemapRules :
        \E seeds \in [1..(d[1] * d[2]) -> TilemapSeeds] :
            /\ layer = seededLayer(d, seeds, rule)
            /\ last = NoCall
            /\ held = Null
            /\ tilemap = Null

ShuffleSeeded == last.op = "new" /\ Shuffle(TilemapRects)
RandomSeeded == last.op = "new" /\ Random(TilemapRects)
SwapSeeded == last.op = "new" /\ Swap(TilemapRects, 0..2)

NextTilemap ==
    \/ ShuffleSeeded
    \/ RandomSeeded
    \/ SwapSeeded

SpecTilemap == InitTilemap /\ [][NextTilemap]_vars

\* Snapshots: a row of two cells that setCell calls fill, one copyTiles call
\* over the row, and after it one layer operation and one index assignment
\* to a copied tile, in either order, and a last layer operation after the
\* assignment.
SnapshotRects == {Rectangle(0, 0, 2, 1), Rectangle(1, 0, 1, 1)}

InitSnapshot ==
    /\ layer = TileLayer(2, 1)
    /\ last = NoCall
    /\ held = Null
    /\ tilemap = Null

\* The layer is due an operation: it was just copied, or a tile of the
\* fresh copy was just assigned an index.
AfterCopy ==
    \/ last.op = "copyTiles"
    \/ last.op = "snapshot.index" /\ last.after = "copyTiles"

SetCellBeforeCopy == held = Null /\ SetCell(Inside, Omitted)
CopySnapshot == held = Null /\ CopyTiles(SnapshotRects, {FALSE})
SetCellAfterCopy == AfterCopy /\ SetCell(Inside, Omitted)
SetCellFromTileAfterCopy == AfterCopy /\ SetCellFromTile(Inside)
ClearCellAfterCopy == AfterCopy /\ ClearCell(Inside)
TransformRegionAfterCopy ==
    AfterCopy /\ TransformRegion(SnapshotRects) /\ WithinBounds(layer')
RefreshLayerAfterCopy == AfterCopy /\ RefreshLayer
SetSnapshotIndex == held # Null /\ last.op # "snapshot.index" /\ SetHeldIndex

NextSnapshot ==
    \/ SetCellBeforeCopy
    \/ CopySnapshot
    \/ SetCellAfterCopy
    \/ SetCellFromTileAfterCopy
    \/ ClearCellAfterCopy
    \/ TransformRegionAfterCopy
    \/ RefreshLayerAfterCopy
    \/ SetSnapshotIndex

SpecSnapshot == InitSnapshot /\ [][NextSnapshot]_vars

\* Rectangles: layers of three shapes, and every rectangle with its origin
\* from two cells before the layer to beyond it and sides of 0 to 3 cells.
RectDims == {<<2, 1>>, <<1, 2>>, <<2, 2>>}

RectArgs ==
    {Rectangle(x, y, w, h) : x \in -2..3, y \in -2..3, w \in 0..3, h \in 0..3}

InitRect ==
    \E d \in RectDims :
        /\ layer = TileLayer(d[1], d[2])
        /\ last = NoCall
        /\ held = Null
        /\ tilemap = Null

NextRect ==
    \/ FitRectInLayer(RectArgs)

SpecRect == InitRect /\ [][NextRect]_vars

\* ------------------------------------------------------------------ claims
\* 0 <= x < width and 0 <= y < height
InBounds(x, y) == 0 <= x /\ x < layer.width /\ 0 <= y /\ y < layer.height

\* A returned value that is false in a condition.
Falsy(ret) == ret \in {"false", "null", "undefined"}

\* C1: after setCell(x, y, i) with (x, y) in bounds and i >= 0, from any
\* reachable layer, hasCell(x, y) is true and getTileCopy(x, y).tileIndex
\* is i.
C1_SetCellThenHasCell ==
    (last.op = "setCell" /\ InBounds(last.x, last.y) /\ last.index >= 0)
    => /\ ~last.threw
       /\ hasCell(layer, last.x, last.y) = "true"
       /\ getTileCopy(layer, last.x, last.y, FALSE) # Null
       /\ getTileCopy(layer, last.x, last.y, FALSE)[1].tileIndex = last.index

\* setCell has replaced the index of an existing cell by another index.
C1_Witness ==
    /\ last.op = "setCell" /\ InBounds(last.x, last.y)
    /\ last.index >= 0 /\ last.oldIndex >= 0 /\ last.oldIndex # last.index
    /\ hasCell(layer, last.x, last.y) = "true"

\* C2: after clearCell(x, y), and after setCell(x, y, i) with i < 0, for
\* every (x, y), hasCell(x, y) is false and getTileRef(x, y) is null.
C2_ClearedCellIsAbsent ==
    (last.op = "clearCell" \/ (last.op = "setCell" /\ last.index < 0))
    => /\ ~last.threw
       /\ hasCell(layer, last.x, last.y) = "false"
       /\ getTileRef(layer, last.x, last.y) = Null

\* C3: in every reachable state, hasCell(x, y) is true exactly when (x, y)
\* is in bounds, the slot holds a Tile and that tile's index is >= 0.
C3_HasCellIff ==
    \A c \in Around :
        (hasCell(layer, c[1], c[2]) = "true")
        <=> /\ InBounds(c[1], c[2])
            /\ layer.data[c[2]][c[1]] # Null
            /\ layer.data[c[2]][c[1]][1].tileIndex >= 0

\* hasCell has answered false for a slot that holds a Tile of index -1.
C3_Witness ==
    /\ last.op = "hasCell" /\ InBounds(last.x, last.y) /\ last.ret = "false"
    /\ layer.data[last.y][last.x] # Null
    /\ layer.data[last.y][last.x][1].tileIndex < 0

\* C4: for (x, y) out of range, every cell operation (setCell with an index
\* >= 0, setCellFromTile with an existing tile, clearCell, hasCell,
\* getTileRef, getTileCopy) raises no error, returns null or false where it
\* returns a value, and leaves the grid unchanged.
C4_OutOfRangeIsQuiet ==
    [][(/\ last'.op \in {"setCell", "setCellFromTile", "clearCell",
                         "hasCell", "getTileRef", "getTileCopy"}
        /\ ~InBounds(last'.x, last'.y)
        /\ last'.op \in {"setCell", "setCellFromTile"} => last'.index >= 0)
       => /\ ~last'.threw
          /\ Falsy(last'.ret)
          /\ layer'.data = layer.data]_vars

\* The default collide mask of the rule of tileIndex, Null without one.
RuleMask(L, tileIndex) ==
    IF indexDataAt(L, tileIndex) = Undefined THEN Null
    ELSE indexDataAt(L, tileIndex)[1].defaultCollideMask

\* C5: if index j has a rule with a non-null defaultCollideMask, then after
\* setCell(x, y, j) on an in-bounds cell that was empty or held another
\* index, followed by refreshLayer(false) with suppressRefresh false, the
\* stored tile at (x, y) has the collide bits of j's mask.
C5_NewIndexRulesAfterRefresh ==
    [][(/\ last.op = "setCell" /\ ~last.threw
        /\ InBounds(last.x, last.y)
        /\ last.index >= 0 /\ last.oldIndex # last.index
        /\ RuleMask(layer, last.index) # Null
        /\ ~layer.suppressRefresh
        /\ last'.op = "refreshLayer" /\ ~last'.force)
       => /\ layer'.data[last.y][last.x] # Null
          /\ BitAnd(layer'.data[last.y][last.x][1].tileFlags, COLLIDE_ALL)
               = BitAnd(RuleMask(layer, last.index)[1], COLLIDE_ALL)]_vars

\* C6: a refreshLayer(false) that directly follows a refreshLayer(false)
\* runs neither sweep and leaves every tile, changeCount and both markers
\* unchanged.
C6_SecondRefreshDoesNothing ==
    [][(/\ last'.op = "refreshLayer" /\ ~last'.force
        /\ last'.after = "refreshLayer(false)")
       => /\ ~last'.rulePass /\ ~last'.facePass
          /\ layer' = layer]_vars

\* A second refreshLayer(false) in a row, on an unsuppressed layer whose
\* first refresh had edits and rule changes to apply.
C6_Witness ==
    /\ last.op = "refreshLayer" /\ ~last.force
    /\ last.after = "refreshLayer(false)"
    /\ ~layer.suppressRefresh
    /\ layer.ruleChanges > 0 /\ layer.clearedApplyRules = layer.ruleChanges
    /\ layer.clearedCalculateFaces = layer.changeCount
    /\ \E c \in Inside : hasCell(layer, c[1], c[2]) = "true"

DirBit == [up |-> 8, down |-> 4, left |-> 2, right |-> 1]

Adjacent(x, y, d) ==
    CASE d = "up" -> <<x, y - 1>>
      [] d = "down" -> <<x, y + 1>>
      [] d = "left" -> <<x - 1, y>>
      [] d = "right" -> <<x + 1, y>>

\* The cell next to (x, y) in direction d holds a tile colliding on side d.
Culls(x, y, d) ==
    LET n == Adjacent(x, y, d) IN
    /\ InBounds(n[1], n[2])
    /\ layer.data[n[2]][n[1]] # Null
    /\ BitAnd(layer.data[n[2]][n[1]][1].tileFlags, DirBit[d]) # 0

\* C7: after refreshLayer(true), for every existing tile and every direction
\* d, the face-d bit is set iff the collide-d bit is set and the adjacent
\* cell in direction d holds no tile whose collide-d bit is set; an edge or
\* an absent neighbour culls nothing.
C7_FacesAfterForcedRefresh ==
    (last.op = "refreshLayer" /\ last.force)
    => \A c \in Inside :
         hasCell(layer, c[1], c[2]) = "true"
         => \A d \in DOMAIN DirBit :
              LET flags == layer.data[c[2]][c[1]][1].tileFlags IN
              (BitAnd(flags, DirBit[d] * 16) # 0)
              <=> (BitAnd(flags, DirBit[d]) # 0 /\ ~Culls(c[1], c[2], d))

\* The row of three index-1 tiles under an all-sides rule, after
\* refreshLayer(true): the middle tile faces up and down only, each outer
\* tile also keeps its outward face.
C7_Witness ==
    /\ last.op = "refreshLayer" /\ last.force
    /\ layer.width = 3 /\ layer.height = 1
    /\ RuleMask(layer, 1) = <<255>>
    /\ \A x \in 0..2 : layer.data[0][x] # Null /\ layer.data[0][x][1].tileIndex = 1
    /\ layer.data[0][0][1].tileFlags = 15 + 128 + 64 + 32
    /\ layer.data[0][1][1].tileFlags = 15 + 128 + 64
    /\ layer.data[0][2][1].tileFlags = 15 + 128 + 64 + 16

\* The layer has no stale edit and no stale rule change.
Fresh(L) ==
    /\ L.clearedApplyRules >= L.ruleChanges
    /\ L.clearedCalculateFaces >= L.changeCount

\* C8: setting suppressRefresh from true to false performs exactly one
\* refreshLayer(false), which applies the edits and rule changes made while
\* suppressed; setting it to the value it already has changes no state and
\* triggers no refresh.
C8_SuppressSetter ==
    [][(last'.op = "suppressRefresh")
       => /\ (layer.suppressRefresh /\ ~last'.force)
             => /\ last'.refreshCalls = 1
                /\ layer' = refreshLayer([layer EXCEPT !.suppressRefresh = FALSE],
                                         FALSE)
                /\ Fresh(layer')
          /\ (layer.suppressRefresh = last'.force)
             => /\ last'.refreshCalls = 0
                /\ layer' = layer]_vars

\* Suppression was lifted from a layer with a stale edit and a stale rule
\* change, and both sweeps ran.
C8_Witness ==
    /\ last.op = "suppressRefresh" /\ ~last.force /\ last.ret = "true"
    /\ last.refreshCalls = 1 /\ last.rulePass /\ last.facePass
    /\ ~layer.suppressRefresh /\ Fresh(layer)
    /\ \E c \in Inside :
         /\ hasCell(layer, c[1], c[2]) = "true"
         /\ layer.data[c[2]][c[1]][1].tileFlags # 0

\* C9: while suppressRefresh is true, refreshLayer(false), applyRules(false)
\* and calculateFaces(false) change nothing; refreshLayer(true) runs both
\* passes whatever suppressRefresh and the markers say.
C9_SuppressedUnlessForced ==
    [][/\ (/\ layer.suppressRefresh
           /\ last'.op \in {"refreshLayer", "applyRules", "calculateFaces"}
           /\ ~last'.force)
          => /\ layer' = layer
             /\ ~last'.rulePass /\ ~last'.facePass
       /\ (last'.op = "refreshLayer" /\ last'.force)
          => /\ last'.rulePass /\ last'.facePass
             /\ layer'.changeCount = layer.changeCount + 1
             /\ layer'.clearedApplyRules = layer'.ruleChanges
             /\ layer'.clearedCalculateFaces = layer'.changeCount]_vars

\* A refreshLayer(true) ran on a suppressed layer that the refreshLayer(true)
\* before it had left without stale changes.
C9_Witness ==
    /\ last.op = "refreshLayer" /\ last.force
    /\ last.after = "refreshLayer(true)"
    /\ layer.suppressRefresh
    /\ last.rulePass /\ last.facePass

\* C10: for every list of indexes and every collideFlags, including 0 and
\* indexes without a rule, setDefaultCollisionFlags completes, leaves each
\* listed index with the mask (bits & 0x0F) | ((bits & 0x0F) << 4), and
\* adds the number of listed indexes to ruleChanges.
C10_SetDefaultCompletes ==
    [][(last'.op = "setDefaultCollisionFlags")
       => /\ ~last'.threw
          /\ \A k \in 1..Len(last'.list) :
               RuleMask(layer', last'.list[k])
                 = <<BitAnd(last'.index, 15) + BitAnd(last'.index, 15) * 16>>
          /\ layer'.ruleChanges = layer.ruleChanges + Len(last'.list)]_vars

\* The cells a rectangle covers.
CellsOf(rect) ==
    (rect.x..(rect.x + rect.width - 1)) \X (rect.y..(rect.y + rect.height - 1))

\* C14: for every integer rectangle, fitRectInLayer returns exactly the
\* intersection of the rectangle with the layer: its origin is not
\* negative, and its cells are the cells of the rectangle that are cells of
\* the layer.
C14_FitIsIntersection ==
    (last.op = "fitRectInLayer")
    => /\ last.fitted[1].x >= 0 /\ last.fitted[1].y >= 0
       /\ CellsOf(last.fitted[1])
            = {c \in CellsOf(last.rect[1]) : InBounds(c[1], c[2])}

\* What a cell is to its readers: absent, or the index, role, alpha and
\* flags of its tile.
CellState(L, x, y) ==
    IF hasCell(L, x, y) # "true" THEN Null
    ELSE LET tile == L.data[y][x][1] IN
         <<tile.tileIndex, tile.roleId, tile.alpha, tile.tileFlags>>

\* C11: copyTiles(rect) followed by pasteTiles(result) at the capture origin,
\* given explicitly or defaulted by omitting x and y, completes and leaves
\* every cell of the region with its original existence, index, role, alpha
\* and flags.
C11_CopyPasteRoundTrip ==
    [][(/\ last.op = "copyTiles" /\ last.force
        /\ last'.op = "pasteTiles"
        /\ "buffer" \notin DOMAIN held[1]
        /\ \/ last'.force
           \/ (last'.x = held[1].rect.x /\ last'.y = held[1].rect.y))
       => /\ ~last'.threw
          /\ \A c \in CellsOf(held[1].rect) :
               CellState(layer', c[1], c[2]) = CellState(layer, c[1], c[2])]_vars

\* C12: pasteTiles(copyData, x, y) returns true if and only if every source
\* cell of the copied block landed on a cell of the layer, and false
\* otherwise.
C12_PasteReturnsAllLanded ==
    [][(last'.op = "pasteTiles" /\ ~last'.force)
       => /\ ~last'.threw
          /\ (last'.ret = "true")
             <=> \A c \in CellsOf(held[1].rect) :
                   InBounds(last'.x + c[1] - held[1].rect.x,
                            last'.y + c[2] - held[1].rect.y)
          /\ last'.ret \in {"true", "false"}]_vars

\* C13: the tiles returned by copyTiles are a snapshot: a later setCell,
\* setCellFromTile, clearCell, transformRegion or refreshLayer leaves every
\* snapshot tile as it was, and a change of a snapshot tile leaves the layer
\* as it was.
C13_SnapshotIsIndependent ==
    [][/\ (/\ held # Null
           /\ last'.op \in {"setCell", "setCellFromTile", "clearCell",
                            "transformRegion", "refreshLayer"})
          => heldTiles(layer', held'[1]) = heldTiles(layer, held[1])
       /\ (last'.op = "snapshot.index") => layer' = layer]_vars

\* A setCell has given a copied cell another index than the snapshot tile
\* of that cell has.
C13_Witness ==
    /\ held # Null /\ last.op = "setCell" /\ last.index >= 0
    /\ \E k \in DOMAIN held[1].tiles :
         LET tile == heldTiles(layer, held[1])[k] IN
         /\ tile # Null
         /\ tile[1].x = last.x /\ tile[1].y = last.y
         /\ tile[1].tileIndex >= 0
         /\ tile[1].tileIndex # last.index

\* What the callback of the transformRegion call just made left of the
\* tiles it received.
LeftByCallback == applyCallback(layer, last'.tiles, last'.callback[1])

\* C15: after transformRegion(rect, callback, ..., forceMaterialize = true)
\* every cell of the clamped region reflects the tile the callback left for
\* it: the cell is absent iff the callback left the index < 0, and otherwise
\* the cell exists (hasCell true, index 0 included) with the index left.
C15_WriteBackHonoursIndex ==
    [][(last'.op = "transformRegion" /\ last'.force)
       => /\ ~last'.threw
          /\ Len(LeftByCallback) = Cardinality(CellsOf(last'.fitted[1]))
          /\ \A k \in DOMAIN LeftByCallback :
               LET tile == LeftByCallback[k][1].t
                   slot == layer'.data[tile.y][tile.x]
               IN /\ <<tile.x, tile.y>> \in CellsOf(last'.fitted[1])
                  /\ (slot = Null) <=> (tile.tileIndex < 0)
                  /\ (tile.tileIndex >= 0)
                     => /\ slot[1].tileIndex = tile.tileIndex
                        /\ hasCell(layer', tile.x, tile.y) = "true"]_vars

\* A forced transformRegion whose callback set index 0 on the tile of an
\* empty cell and index -1 on the tile of an existing cell: the first now
\* exists with index 0 and the second is gone.
C15_Witness ==
    /\ last.op = "transformRegion" /\ last.force /\ ~last.threw
    /\ \E j, k \in DOMAIN last.tiles :
         /\ last.tiles[j][1].t.tileIndex < 0
         /\ last.callback[1].args[j] = <<0>>
         /\ hasCell(layer, last.tiles[j][1].t.x, last.tiles[j][1].t.y) = "true"
         /\ last.tiles[k][1].t.tileIndex > 0
         /\ last.callback[1].args[k] = <<-1>>
         /\ layer.data[last.tiles[k][1].t.y][last.tiles[k][1].t.x] = Null

\* The calls a transformRegion that follows its order makes for n tiles.
FixedOrder(n) ==
    <<"callback">> \o [k \in 1..n |-> "setCellFromTile"] \o <<"refreshLayer(false)">>

\* C16: transformRegion follows a fixed order: the callback is invoked once
\* with the tile list of the clamped region, then setCellFromTile is called
\* for every element of the list, then refreshLayer(false) is invoked once.
C16_TransformOrder ==
    [][(last'.op = "transformRegion")
       => last'.events = FixedOrder(Len(last'.tiles))]_vars

\* C17: transformRegion with forceMaterialize = false over a region with
\* empty cells passes null at their positions, and when the callback leaves
\* those entries null the call completes normally: the empty cells stay
\* absent and every other cell holds what the callback left of its tile.
C17_NullEntriesAreSkipped ==
    [][(/\ last'.op = "transformRegion" /\ ~last'.force
        /\ \E k \in DOMAIN last'.tiles : last'.tiles[k] = Null)
       => /\ \A c \in CellsOf(last'.fitted[1]) :
               (layer.data[c[2]][c[1]] = Null)
               <=> (\E k \in DOMAIN last'.tiles :
                      /\ last'.tiles[k] = Null
                      /\ regionCells(layer, last'.fitted[1].x, last'.fitted[1].y,
                                     last'.fitted[1].width,
                                     last'.fitted[1].height)[k] = c)
          /\ ~last'.threw
          /\ \A k \in DOMAIN last'.tiles :
               LET c == regionCells(layer, last'.fitted[1].x, last'.fitted[1].y,
                                    last'.fitted[1].width, last'.fitted[1].height)[k]
                   slot == layer'.data[c[2]][c[1]]
                   left == LeftByCallback[k]
               IN IF left = Null THEN slot = Null
                  ELSE (slot = Null) <=> (left[1].t.tileIndex < 0)]_vars

\* C18: after fill(i, rect) with i >= 0 every cell of the clamped region
\* exists with index i, and if index i has a rule with a non-null
\* defaultCollideMask every such cell carries the collide bits of the mask
\* and getExistingTiles over the region with a collide mask returns it.
C18_FillSetsIndexAndRuleFlags ==
    (last.op = "fill" /\ last.callback[1].args >= 0)
    => LET i == last.callback[1].args
           r == last.fitted[1]
       IN /\ ~last.threw
          /\ \A c \in CellsOf(r) :
               /\ hasCell(layer, c[1], c[2]) = "true"
               /\ layer.data[c[2]][c[1]][1].tileIndex = i
          /\ (RuleMask(layer, i) # Null)
             => /\ \A c \in CellsOf(r) :
                     BitAnd(layer.data[c[2]][c[1]][1].tileFlags, COLLIDE_ALL)
                     = BitAnd(RuleMask(layer, i)[1], COLLIDE_ALL)
                /\ (BitAnd(RuleMask(layer, i)[1], COLLIDE_ALL) # 0)
                   => Len(getExistingTiles(layer, r.x, r.y, r.width, r.height,
                                           COLLIDE_ALL))
                      = Cardinality(CellsOf(r))

\* The number of cells of rectangle r that hold index i in L, an absent
\* cell holding -1.
IndexCount(L, r, i) ==
    Cardinality({c \in CellsOf(r) : slotIndex(L.data[c[2]][c[1]]) = i})

\* C19: shuffle(rect) preserves the multiset of the indexes of the cells of
\* the clamped region, absent cells counted as index -1, whatever the
\* permutation; the cells outside the region keep their indexes.
C19_ShufflePreservesIndexes ==
    [][(last'.op = "shuffle")
       => /\ ~last'.threw
          /\ \A i \in (TilemapSeeds \cup {-1}) :
               IndexCount(layer', last'.fitted[1], i)
               = IndexCount(layer, last'.fitted[1], i)
          /\ \A c \in Inside \ CellsOf(last'.fitted[1]) :
               slotIndex(layer'.data[c[2]][c[1]]) = slotIndex(layer.data[c[2]][c[1]])]_vars

\* A shuffle has moved an index > 0 to a cell that was absent and left the
\* cell it came from absent.
C19_Witness ==
    /\ last.op = "shuffle" /\ ~last.threw
    /\ \E j, k \in DOMAIN last.tiles :
         LET from == last.tiles[j][1].t
             to == last.tiles[k][1].t
         IN /\ from.tileIndex > 0 /\ to.tileIndex = -1
            /\ layer.data[from.y][from.x] = Null
            /\ slotIndex(layer.data[to.y][to.x]) = from.tileIndex

\* The distinct indexes > 0 of the tiles the random call just made received.
Palette ==
    {i \in {elementIndex(last'.tiles[k]) : k \in DOMAIN last'.tiles} : i > 0}

\* C20 as stated: after random(rect) every cell of the clamped region holds
\* an index of the set of distinct indexes > 0 present in the region before
\* the call.
C20_RandomFromPalette ==
    [][(last'.op = "random")
       => \A c \in CellsOf(last'.fitted[1]) :
            slotIndex(layer'.data[c[2]][c[1]]) \in Palette]_vars

\* C20: after random(rect), whatever is drawn: if the region held an index
\* > 0 before the call, every cell of the clamped region exists with an
\* index of the set of distinct indexes > 0 present before; if it held none,
\* every cell of the clamped region is absent.
C20_RandomFromPaletteOrCleared ==
    [][(last'.op = "random")
       => /\ ~last'.threw
          /\ \A c \in CellsOf(last'.fitted[1]) :
               IF Palette = {} THEN layer'.data[c[2]][c[1]] = Null
               ELSE /\ hasCell(layer', c[1], c[2]) = "true"
                    /\ slotIndex(layer'.data[c[2]][c[1]]) \in Palette]_vars

\* A random call over a region that held the indexes 1 and 2 and an absent
\* cell: the absent cell now exists, and two cells drew different indexes.
C20_Witness ==
    /\ last.op = "random" /\ ~last.threw
    /\ \E j, k, l \in DOMAIN last.tiles :
         /\ last.tiles[j][1].t.tileIndex = 1
         /\ last.tiles[k][1].t.tileIndex = 2
         /\ last.tiles[l][1].t.tileIndex = -1
         /\ layer.data[last.tiles[l][1].t.y][last.tiles[l][1].t.x] # Null
         /\ slotIndex(layer.data[last.tiles[j][1].t.y][last.tiles[j][1].t.x])
            # slotIndex(layer.data[last.tiles[k][1].t.y][last.tiles[k][1].t.x])

\* C21: after swap(a, b, rect) with a # b and a, b >= 0, every cell of the
\* clamped region that held index a holds b, every cell that held b holds a,
\* and every other cell of the region keeps its index and its existence.
C21_SwapExchanges ==
    [][(/\ last'.op = "swap"
        /\ last'.callback[1].args[1] # last'.callback[1].args[2])
       => LET a == last'.callback[1].args[1]
              b == last'.callback[1].args[2]
          IN /\ ~last'.threw
             /\ \A c \in CellsOf(last'.fitted[1]) :
                  LET before == slotIndex(layer.data[c[2]][c[1]])
                      after == slotIndex(layer'.data[c[2]][c[1]])
                  IN /\ (before = a) => (after = b)
                     /\ (before = b) => (after = a)
                     /\ (before \notin {a, b})
                        => /\ after = before
                           /\ hasCell(layer', c[1], c[2]) = "true"
                              <=> hasCell(layer, c[1], c[2]) = "true"]_vars

\* A swap over a region that held both indexes and a third one: the two
\* have changed places and the third cell kept its index.
C21_Witness ==
    /\ last.op = "swap" /\ ~last.threw
    /\ \E j, k, l \in DOMAIN last.tiles :
         LET a == last.callback[1].args[1]
             b == last.callback[1].args[2]
             tj == last.tiles[j][1].t
             tk == last.tiles[k][1].t
             tl == last.tiles[l][1].t
         IN /\ a # b
            /\ tj.tileIndex = a /\ slotIndex(layer.data[tj.y][tj.x]) = b
            /\ tk.tileIndex = b /\ slotIndex(layer.data[tk.y][tk.x]) = a
            /\ tl.tileIndex \notin {a, b, -1}
            /\ slotIndex(layer.data[tl.y][tl.x]) = tl.tileIndex

\* C22: on a tile with index >= 0, doTileCollisionTest(collider) right
\* after setCollisionTest(callback, context, e1, ..., en) invokes the
\* callback once with the arguments (collider, tile, e1, ..., en), for every
\* n >= 0; on a tile with no collision test it returns "pass" and invokes
\* nothing.
C22_CollisionTestArguments ==
    (/\ last.op = "tile.doTileCollisionTest"
     /\ getTileRef(layer, last.x, last.y)[1].tileIndex >= 0)
    => /\ (last.handler # Null /\ last.handler[1].callback # Null)
          => /\ Len(last.calls) = 1
             /\ last.calls[1].callback = last.handler[1].callback[1]
             /\ last.calls[1].args
                = <<"collider", "this">> \o last.handler[1].args
       /\ (getTileRef(layer, last.x, last.y)[1].collisionTest = Undefined)
          => (last.ret = "pass" /\ last.calls = <<>>)

\* C23: assigning tile.index = v: if v < 0 the tile is reset to
\* non-existent (index -1, role 0, flags 0, alpha 1); if v is the current
\* index nothing changes; otherwise the index becomes v and the default
\* rule of v is applied at once: the collide and face bits are replaced by
\* v's mask when v has a rule with a non-null mask.
C23_IndexSetter ==
    [][(last'.op = "tile.index")
       => LET v == last'.index
              old == layer.data[last'.y][last'.x][1]
              new == layer'.data[last'.y][last'.x][1]
          IN /\ (v < 0)
                => /\ new.tileIndex = -1 /\ new.roleId = 0
                   /\ new.tileFlags = 0 /\ new.alpha = 1
             /\ (v >= 0 /\ v = old.tileIndex) => (new = old)
             /\ (v >= 0 /\ v # old.tileIndex)
                => /\ new.tileIndex = v
                   /\ new.roleId = old.roleId /\ new.alpha = old.alpha
                   /\ new.tileFlags
                      = IF RuleMask(layer, v) = Null THEN old.tileFlags
                        ELSE BitOr(BitClear(old.tileFlags, COLLIDE_ALL + FACE_ALL),
                                   RuleMask(layer, v)[1])]_vars

\* The stored tile, which had a role and other collide bits, was given
\* another index that has a rule, and carries the mask of the rule.
C23_Witness ==
    /\ last.op = "tile.index" /\ last.index >= 0
    /\ last.oldIndex >= 0 /\ last.oldIndex # last.index
    /\ RuleMask(layer, last.index) # Null
    /\ LET tile == layer.data[last.y][last.x][1] IN
       /\ tile.roleId = 1
       /\ BitAnd(tile.tileFlags, COLLIDE_ALL + FACE_ALL) = RuleMask(layer, last.index)[1]

\* What getTileCopy has to return for the cell (x, y) of L: the value
\* fields of the stored tile in a tile of that cell, a new non-existent tile,
\* or null.
CopyMatches(L, x, y, forceMaterialize, copy) ==
    IF outOfRange(L, x, y) THEN copy = Null
    ELSE IF L.data[y][x] # Null
    THEN /\ copy # Null
         /\ <<copy[1].x, copy[1].y>> = <<x, y>>
         /\ <<copy[1].tileIndex, copy[1].roleId, copy[1].alpha, copy[1].tileFlags>>
            = <<L.data[y][x][1].tileIndex, L.data[y][x][1].roleId,
                L.data[y][x][1].alpha, L.data[y][x][1].tileFlags>>
    ELSE IF forceMaterialize THEN copy = <<Tile(-1, x, y)>>
    ELSE copy = Null

\* C24 as stated: getTileCopy returns an independent tile with the stored
\* cell's index, role, alpha and flags (a new index -1 tile when
\* forceMaterialize is true and the cell is empty, null otherwise), the
\* call leaves the grid and changeCount unchanged, and no change of the
\* returned tile changes a cell of the layer.
C24_CopyIsIndependent ==
    [][/\ (last'.op = "getTileCopy")
          => /\ layer' = layer
             /\ CopyMatches(layer, last'.x, last'.y, last'.force, last'.tile)
       /\ (last'.op = "copy.change") => layer' = layer]_vars

\* C24: getTileCopy returns a tile of its own with the stored cell's index,
\* role, alpha and flags (a new index -1 tile when forceMaterialize is true
\* and the cell is empty, null otherwise) and leaves the grid and
\* changeCount unchanged; a change of the index, alpha, flags or collision
\* test of the returned tile changes no cell, and a change of its
\* properties changes no cell unless the stored tile had a properties
\* object, which the copy then shares: the change shows in the cell.
C24_CopyIsIndependentButProperties ==
    [][/\ (last'.op = "getTileCopy")
          => /\ layer' = layer
             /\ CopyMatches(layer, last'.x, last'.y, last'.force, last'.tile)
       /\ (last'.op = "copy.change")
          => LET slot == layer.data[last'.y][last'.x] IN
             IF last'.ret = "properties" /\ slot # Null
                /\ slot[1].properties # Undefined
             THEN /\ layer'.data[last'.y][last'.x][1].properties
                     = held'[1].copy[1].properties
                  /\ layer'.data[last'.y][last'.x][1].properties # slot[1].properties
                  /\ layer'.changeCount = layer.changeCount
             ELSE layer' = layer]_vars

\* A copy of an existing cell has been given another index, and the cell
\* still has its own.
C24_Witness ==
    /\ last.op = "copy.change" /\ last.ret = "index"
    /\ layer.data[last.y][last.x] # Null
    /\ layer.data[last.y][last.x][1].tileIndex >= 0
    /\ held[1].copy[1].tileIndex >= 0
    /\ held[1].copy[1].tileIndex # layer.data[last.y][last.x][1].tileIndex

\* C25: changeCount never decreases, whatever the operation, and every
\* in-bounds setCell, setCellFromTile and clearCell increases it by exactly
\* 1, also when the value written is the one stored and when the cell
\* cleared was already absent.
C25_ChangeCountGrows ==
    [][/\ layer'.changeCount >= layer.changeCount
       /\ (/\ last'.op \in {"setCell", "setCellFromTile", "clearCell"}
           /\ InBounds(last'.x, last'.y))
          => layer'.changeCount = layer.changeCount + 1]_vars

\* An absent cell has been cleared, after an earlier change.
C25_Witness ==
    /\ last.op = "clearCell" /\ last.oldIndex = -1
    /\ InBounds(last.x, last.y)
    /\ layer.changeCount >= 2

\* The roles of L that have the name.
RolesNamed(L, roleName) ==
    {k \in 2..Len(L.roleData) : L.roleData[k][1].roleName = roleName}

\* C26: role names are unique within a layer: createTileRole(name) called
\* again with the same name returns the same role and adds no role, the
\* first role created gets id 1, and after createTileRole(name)
\* getTileRole(name) returns that role.
C26_RoleNamesUnique ==
    [][(last'.op = "createTileRole")
       => /\ last'.role # Null
          /\ \A roleName \in RoleNames : Cardinality(RolesNamed(layer', roleName)) <= 1
          /\ (RolesNamed(layer, last'.name) # {})
             => /\ layer'.roleData = layer.roleData
                /\ \E k \in RolesNamed(layer, last'.name) :
                     last'.role = layer.roleData[k]
          /\ (Len(layer.roleData) = 1) => (last'.role[1].roleId = 1)
          /\ getTileRole(layer', last'.name) = last'.role]_vars

\* The flags a tile of index tileIndex has after the default rule of that
\* index is applied to flags tileFlags.
RuledFlags(L, tileIndex, tileFlags) ==
    IF RuleMask(L, tileIndex) = Null THEN tileFlags
    ELSE BitOr(BitClear(tileFlags, COLLIDE_ALL + FACE_ALL),
               RuleMask(L, tileIndex)[1])

\* C27: applyRules(force) changes nothing when force is false and the layer
\* is suppressed or clearedApplyRules >= ruleChanges; otherwise every
\* stored tile gets the default rule of its current index applied and keeps
\* everything else, empty slots stay empty, clearedApplyRules becomes
\* ruleChanges and changeCount grows by exactly 1.
C27_ApplyRules ==
    [][(last'.op = "applyRules")
       => IF ~last'.force /\ (\/ layer.suppressRefresh
                               \/ layer.clearedApplyRules >= layer.ruleChanges)
          THEN layer' = layer
          ELSE /\ \A c \in Inside :
                    LET old == layer.data[c[2]][c[1]]
                        new == layer'.data[c[2]][c[1]]
                    IN IF old = Null THEN new = Null
                       ELSE /\ new # Null
                            /\ new[1] = [old[1] EXCEPT !.tileFlags =
                                  RuledFlags(layer, old[1].tileIndex, @)]
               /\ layer'.clearedApplyRules = layer.ruleChanges
               /\ layer'.ruleChanges = layer.ruleChanges
               /\ layer'.changeCount = layer.changeCount + 1
               /\ layer'.indexData = layer.indexData
               /\ layer'.suppressRefresh = layer.suppressRefresh
               /\ layer'.clearedCalculateFaces = layer.clearedCalculateFaces]_vars

\* An applyRules(false) ran on an unsuppressed layer with a rule change to
\* apply and changed the flags of a stored tile.
C27_Witness ==
    /\ last.op = "applyRules" /\ ~last.force /\ last.rulePass
    /\ ~layer.suppressRefresh
    /\ layer.clearedApplyRules = layer.ruleChanges /\ layer.ruleChanges > 0
    /\ \E c \in Inside :
         /\ layer.data[c[2]][c[1]] # Null
         /\ RuleMask(layer, layer.data[c[2]][c[1]][1].tileIndex) # Null
         /\ layer.data[c[2]][c[1]][1].tileFlags # 0

\* C28: calculateFaces never changes changeCount; when it runs (forced, or
\* unsuppressed with clearedCalculateFaces < changeCount) it sets
\* clearedCalculateFaces to the current changeCount; it changes nothing of
\* the layer but the four face bits of existing tiles: empty slots stay
\* empty, non-existent tiles are untouched, and every tile keeps its index,
\* role, alpha, collide bits and other flag bits.
C28_CalculateFacesFrame ==
    [][(last'.op = "calculateFaces")
       => /\ layer'.changeCount = layer.changeCount
          /\ (\/ last'.force
              \/ (/\ ~layer.suppressRefresh
                  /\ layer.clearedCalculateFaces < layer.changeCount))
             => layer'.clearedCalculateFaces = layer.changeCount
          /\ [layer' EXCEPT !.data = layer.data,
                            !.clearedCalculateFaces = layer.clearedCalculateFaces]
             = layer
          /\ \A c \in Inside :
               LET old == layer.data[c[2]][c[1]]
                   new == layer'.data[c[2]][c[1]]
               IN /\ hasCell(layer', c[1], c[2]) = hasCell(layer, c[1], c[2])
                  /\ IF old = Null \/ old[1].tileIndex < 0 THEN new = old
                     ELSE /\ new # Null
                          /\ [new[1] EXCEPT !.tileFlags = old[1].tileFlags] = old[1]
                          /\ BitClear(new[1].tileFlags, FACE_ALL)
                             = BitClear(old[1].tileFlags, FACE_ALL)]_vars

\* A sweep ran after changes and gave faces to a tile that has a role, an
\* alpha and a collision test, culling one of them against its neighbour.
C28_Witness ==
    /\ last.op = "calculateFaces" /\ last.facePass
    /\ layer.changeCount > 0
    /\ layer.clearedCalculateFaces = layer.changeCount
    /\ \E c \in Inside :
         /\ layer.data[c[2]][c[1]] # Null
         /\ LET tile == layer.data[c[2]][c[1]][1] IN
            /\ tile.roleId = 1 /\ tile.alpha = 0
            /\ BitAnd(tile.tileFlags, HAS_COLLISION_TEST) # 0
            /\ BitAnd(tile.tileFlags, COLLIDE_ALL) = COLLIDE_ALL
            /\ BitAnd(tile.tileFlags, FACE_ALL) \notin {0, FACE_ALL}

\* C29: applyDefaultTileRules(tile), as applyRules runs it on every stored
\* tile: if the tile's index has a rule with a non-null defaultCollideMask
\* the tile's collide and face bits become exactly that mask and all other
\* flag bits (collision test, debug) are unchanged; without a rule or with
\* a null mask the flags are unchanged, collide bits left by a previous
\* index included.  Nothing else of the tile changes.
C29_DefaultRulesFrame ==
    [][(last'.op = "applyRules" /\ last'.rulePass)
       => \A c \in Inside :
            (layer.data[c[2]][c[1]] # Null)
            => LET old == layer.data[c[2]][c[1]][1]
                   new == layer'.data[c[2]][c[1]][1]
                   mask == RuleMask(layer, old.tileIndex)
               IN /\ [new EXCEPT !.tileFlags = old.tileFlags] = old
                  /\ IF mask = Null THEN new.tileFlags = old.tileFlags
                     ELSE /\ BitAnd(new.tileFlags, COLLIDE_ALL + FACE_ALL) = mask[1]
                          /\ BitClear(new.tileFlags, COLLIDE_ALL + FACE_ALL)
                             = BitClear(old.tileFlags, COLLIDE_ALL + FACE_ALL)]_vars

\* applyRules gave the mask of its index to a tile that keeps its debug
\* and collision test bits.
C29_Witness ==
    /\ last.op = "applyRules" /\ last.rulePass
    /\ layer.data[0][0] # Null
    /\ LET tile == layer.data[0][0][1] IN
       /\ RuleMask(layer, tile.tileIndex) # Null
       /\ BitAnd(tile.tileFlags, COLLIDE_ALL + FACE_ALL)
          = RuleMask(layer, tile.tileIndex)[1]
       /\ BitAnd(tile.tileFlags, HAS_COLLISION_TEST) # 0
       /\ BitAnd(tile.tileFlags, DEBUG) # 0

\* C30: setCell(x, y, j) on a cell whose stored tile has an index i other
\* than j applies the default rule of the previous index i before it writes
\* j: right after the call the tile has index j, its collide and face bits
\* are i's mask if i has a rule with a non-null mask, its flags are
\* otherwise unchanged, and its role and alpha are unchanged when those
\* arguments are omitted (and the given ones otherwise).
C30_SetCellAppliesOldRule ==
    [][(/\ last'.op = "setCell" /\ last'.index >= 0
        /\ InBounds(last'.x, last'.y)
        /\ layer.data[last'.y][last'.x] # Null
        /\ layer.data[last'.y][last'.x][1].tileIndex # last'.index)
       => LET old == layer.data[last'.y][last'.x][1]
              mask == RuleMask(layer, old.tileIndex)
          IN /\ ~last'.threw
             /\ layer'.data[last'.y][last'.x] # Null
             /\ LET new == layer'.data[last'.y][last'.x][1] IN
                /\ new.tileIndex = last'.index
                /\ IF mask = Null THEN new.tileFlags = old.tileFlags
                   ELSE /\ BitAnd(new.tileFlags, COLLIDE_ALL + FACE_ALL) = mask[1]
                        /\ BitClear(new.tileFlags, COLLIDE_ALL + FACE_ALL)
                           = BitClear(old.tileFlags, COLLIDE_ALL + FACE_ALL)
                /\ new.roleId = IF last'.roleId = Undefined THEN old.roleId
                                ELSE last'.roleId[1]
                /\ new.alpha = IF last'.alpha = Undefined THEN old.alpha
                               ELSE last'.alpha[1]]_vars

\* A tile with a role and an alpha, of an index with a rule that had not
\* been applied to it, was given an index without a rule by a setCell that
\* omits role and alpha: it carries the mask of the index it had.
C30_Witness ==
    /\ last.op = "setCell" /\ last.index >= 0
    /\ last.oldIndex >= 0 /\ last.oldIndex # last.index
    /\ last.roleId = Undefined /\ last.alpha = Undefined
    /\ RuleMask(layer, last.oldIndex) # Null
    /\ RuleMask(layer, last.index) = Null
    /\ LET tile == layer.data[last.y][last.x][1] IN
       /\ tile.tileIndex = last.index
       /\ tile.roleId = 1 /\ tile.alpha = 0
       /\ tile.tileFlags = RuleMask(layer, last.oldIndex)[1]

\* The cells of the rectangle that are cells of the layer, row by row.
Intersection(rect) ==
    LET x0 == Max(rect.x, 0)
        y0 == Max(rect.y, 0)
        w == Min(rect.x + rect.width, layer.width) - x0
        h == Min(rect.y + rect.height, layer.height) - y0
    IN [k \in 1..(IF w > 0 /\ h > 0 THEN w * h ELSE 0) |->
          <<x0 + ((k - 1) % w), y0 + ((k - 1) \div w)>>]

\* C31: getTilesEx(x, y, w, h, buffer, forceMaterialize, forceCopy) returns
\* a buffer with one entry for each cell of the intersection of
\* [x, x+w) x [y, y+h) with the layer, in row-major order, for every region
\* (negative x or y included) and every buffer passed in; the entry of an
\* absent cell is null, or with forceMaterialize a new tile of index -1 at
\* that cell; the entry of a stored tile is a tile of that cell.
C31_TilesOfIntersection ==
    (last.op = "getTilesEx")
    => LET cells == Intersection(last.rect[1]) IN
       /\ Len(last.tiles) = Len(cells)
       /\ \A k \in 1..Len(cells) :
            LET slot == layer.data[cells[k][2]][cells[k][1]]
                entry == last.tiles[k]
            IN IF slot = Null /\ ~last.force THEN entry = Null
               ELSE /\ entry # Null
                    /\ entry[1].t.x = cells[k][1] /\ entry[1].t.y = cells[k][2]
                    /\ (slot = Null) => (entry = Element(FALSE,
                                           Tile(-1, cells[k][1], cells[k][2])))
                    /\ (slot # Null) => (entry[1].t.tileIndex = slot[1].tileIndex)

\* C32: getExistingTiles(x, y, w, h, buffer, anyFlagMask) returns exactly
\* the tiles of the region its loops visit that exist (index >= 0) and have
\* (flags & anyFlagMask) != 0, in row-major order, with no null entry and
\* nothing left of the buffer passed in.
C32_ExistingTilesOnly ==
    (last.op = "getExistingTiles")
    => LET cells == regionCells(layer, last.rect[1].x, last.rect[1].y,
                                last.rect[1].width, last.rect[1].height)
           slots == [k \in DOMAIN cells |-> layer.data[cells[k][2]][cells[k][1]]]
       IN last.tiles
          = SelectSeq(slots,
                      LAMBDA tile : /\ tile # Null
                                    /\ tile[1].tileIndex >= 0
                                    /\ BitAnd(tile[1].tileFlags, last.index) # 0)

\* What setCellFromTile(x, y, source) has to leave in the cell: nothing
\* when the source is null or has a negative index, and otherwise a tile
\* with the index, role, alpha and flags of the source.
WrittenFrom(L, x, y, source) ==
    IF source = Null \/ source[1].tileIndex < 0 THEN L.data[y][x] = Null
    ELSE /\ L.data[y][x] # Null
         /\ LET tile == L.data[y][x][1] IN
            /\ tile.tileIndex = source[1].tileIndex
            /\ tile.roleId = source[1].roleId
            /\ tile.alpha = source[1].alpha
            /\ tile.tileFlags = source[1].tileFlags

\* C33 as stated: setCellFromTile(x, y, source) in bounds leaves the cell
\* absent if source is null or has index < 0, and otherwise with the index,
\* role, alpha and flags of the source; no later change of a source that is
\* a detached copy changes the layer.
C33_SourceStaysDetached ==
    [][/\ (last'.op = "setCellFromTile" /\ InBounds(last'.x, last'.y))
          => /\ ~last'.threw
             /\ WrittenFrom(layer', last'.x, last'.y, last'.tile)
       /\ (last'.op = "copy.change" /\ last'.after = "setCellFromTile")
          => layer' = layer]_vars

\* C33: setCellFromTile(x, y, source) in bounds leaves the cell absent if
\* source is null or has index < 0, and otherwise with the index, role,
\* alpha and flags of the source; a later change of the index, alpha, flags
\* or collision test of the source changes nothing of the layer, and a later
\* change of its properties changes nothing unless the source was written to
\* its own location with a properties object, which the stored tile then
\* shares: the change shows in the stored tile and nowhere else.
C33_SourceSharesProperties ==
    [][/\ (last'.op = "setCellFromTile" /\ InBounds(last'.x, last'.y))
          => /\ ~last'.threw
             /\ WrittenFrom(layer', last'.x, last'.y, last'.tile)
       /\ (last'.op = "copy.change" /\ last'.after = "setCellFromTile")
          => IF /\ last'.ret = "properties"
                /\ last.tile # Null /\ last.tile[1].tileIndex >= 0
                /\ last.tile[1].properties # Undefined
                /\ last.tile[1].x = last.x /\ last.tile[1].y = last.y
             THEN /\ layer'.data[last.y][last.x][1].properties
                     = held'[1].copy[1].properties
                  /\ layer'.data[last.y][last.x][1].properties
                     # layer.data[last.y][last.x][1].properties
                  /\ [layer' EXCEPT !.data[last.y][last.x][1].properties =
                                       layer.data[last.y][last.x][1].properties]
                     = layer
             ELSE layer' = layer]_vars

\* A copy with a role and an alpha was written into the other cell and
\* then given another index: the cell written keeps the index, role and
\* alpha it got.
C33_Witness ==
    /\ last.op = "copy.change" /\ last.after = "setCellFromTile"
    /\ last.ret = "index"
    /\ layer.data[0][1] # Null
    /\ layer.data[0][1][1].tileIndex = 0
    /\ layer.data[0][1][1].roleId = 1 /\ layer.data[0][1][1].alpha = 0
    /\ held[1].copy[1].x = 0 /\ held[1].copy[1].tileIndex = 1

\* What the claims on regions compare of a cell: absent, or the index, role
\* and alpha of its tile.
CellContent(L, x, y) ==
    IF hasCell(L, x, y) # "true" THEN Null
    ELSE LET tile == L.data[y][x][1] IN <<tile.tileIndex, tile.roleId, tile.alpha>>

\* C34: transformRegion, and fill, swap, random and shuffle built on it,
\* change only cells of the intersection of the given rectangle with the
\* layer: for every rectangle, one with a negative origin included, every
\* cell of the layer outside the rectangle keeps its existence, index, role
\* and alpha.
C34_OutsideUntouched ==
    [][(last'.op \in {"transformRegion", "fill", "swap", "random", "shuffle"})
       => \A c \in Inside :
            (c \notin CellsOf(last'.rect[1]))
            => CellContent(layer', c[1], c[2]) = CellContent(layer, c[1], c[2])]_vars

\* C35: Tilemap.setCollision(indexes, collides, layer, recalculate) changes
\* the default collision rules of the layer its layer argument names, the
\* current layer when the argument is omitted, and of no other layer.
C35_SetCollisionOnNamedLayer ==
    [][(last'.op = "tilemap.setCollision")
       => LET named == IF last'.layerKey = Undefined THEN tilemap.currentLayer
                       ELSE last'.layerKey[1]
          IN /\ ~last'.threw
                => \A k \in 1..Len(last'.list) :
                     indexDataAt(tilemap'.layers[named], last'.list[k]) # Undefined
             /\ \A other \in DOMAIN tilemap.layers :
                  (other # named)
                  => tilemap'.layers[other].indexData
                     = tilemap.layers[other].indexData]_vars

\* C36: after any sequence of setCell, setCellFromTile, clearCell,
\* pasteTiles and transformRegion calls whose callbacks return normally,
\* every slot of the grid that is not absent holds a tile with index >= 0:
\* hasCell(x, y) is true exactly when getTileRef(x, y) is not null.
C36_StoredTilesExist ==
    \A c \in Inside :
        /\ (layer.data[c[2]][c[1]] # Null) => (layer.data[c[2]][c[1]][1].tileIndex >= 0)
        /\ (hasCell(layer, c[1], c[2]) = "true") <=> (getTileRef(layer, c[1], c[2]) # Null)

\* ------------------------------------------------------------------- C37
\* C37: in every reachable state the mark of the last rule sweep
\* (_changeClearedAt.applyRules) is at most ruleChanges and the mark of the
\* last face sweep (_changeClearedAt.calculateFaces) is at most changeCount,
\* and no step makes ruleChanges smaller.
C37_MarksBehindCounters ==
    /\ [](/\ layer.clearedApplyRules <= layer.ruleChanges
          /\ layer.clearedCalculateFaces <= layer.changeCount)
    /\ [][layer'.ruleChanges >= layer.ruleChanges]_vars

\* Both sweeps have run after a rule change, and a later edit left the
\* face mark strictly behind changeCount.
C37_Witness ==
    /\ layer.ruleChanges > 0
    /\ layer.clearedApplyRules = layer.ruleChanges
    /\ layer.clearedCalculateFaces > 0
    /\ layer.clearedCalculateFaces < layer.changeCount

\* ------------------------------------------------------------------- C38
\* C38: when refreshLayer(false) returns on a layer whose suppressRefresh is
\* false, or refreshLayer(true) returns, the rule mark equals ruleChanges
\* and the face mark equals changeCount; the same holds when the
\* suppressRefresh setter lifts the suppression, so the edits and rule
\* changes made while suppressed are reflected in the marks.
C38_RefreshLevelsMarks ==
    [][(\/ /\ last'.op = "refreshLayer"
           /\ (last'.force \/ ~layer'.suppressRefresh)
        \/ /\ last'.op = "suppressRefresh"
           /\ layer.suppressRefresh /\ ~layer'.suppressRefresh)
       => /\ layer'.clearedApplyRules = layer'.ruleChanges
          /\ layer'.clearedCalculateFaces = layer'.changeCount]_vars

\* A refreshLayer(false) on an unsuppressed layer that had a rule change
\* to apply ran both sweeps.
C38_Witness ==
    /\ last.op = "refreshLayer" /\ ~last.force
    /\ ~layer.suppressRefresh
    /\ last.rulePass /\ last.facePass
    /\ layer.ruleChanges > 0
    /\ \E c \in Inside : hasCell(layer, c[1], c[2]) = "true"

\* ------------------------------------------------------------------- C39
\* The face bits and the collide bits of a tile, the latter shifted into
\* the face nibble.
FaceBits(tile) == BitAnd(tile.tileFlags, FACE_ALL)

CollideBitsAsFaces(tile) == BitAnd(tile.tileFlags, COLLIDE_ALL) * 16

\* C39: right after a refreshLayer call that ran the face sweep, the face
\* bits of every existing tile are among its collide bits shifted into the
\* face nibble: no tile has a face on a side on which it does not collide.
C39_FacesWithinCollides ==
    (last.op = "refreshLayer" /\ last.facePass)
    => \A y \in DOMAIN layer.data : \A x \in DOMAIN layer.data[y] :
         (layer.data[y][x] # Null /\ layer.data[y][x][1].tileIndex >= 0)
         => BitAnd(FaceBits(layer.data[y][x][1]),
                   CollideBitsAsFaces(layer.data[y][x][1]))
              = FaceBits(layer.data[y][x][1])

\* After such a refresh a colliding tile kept some of its faces and lost
\* another to a neighbour.
C39_Witness ==
    /\ last.op = "refreshLayer" /\ last.facePass
    /\ \E y \in DOMAIN layer.data : \E x \in DOMAIN layer.data[y] :
         /\ layer.data[y][x] # Null
         /\ layer.data[y][x][1].tileIndex >= 0
         /\ FaceBits(layer.data[y][x][1]) # 0
         /\ FaceBits(layer.data[y][x][1]) # CollideBitsAsFaces(layer.data[y][x][1])

\* ------------------------------------------------------------------- C40
\* What the claim compares of a layer: each cell's index, role, alpha and
\* flags, or Null for an empty cell.
TileData(L) ==
    [y \in DOMAIN L.data |-> [x \in DOMAIN L.data[y] |->
        IF L.data[y][x] = Null THEN Null
        ELSE <<[tileIndex |-> L.data[y][x][1].tileIndex,
                roleId |-> L.data[y][x][1].roleId,
                alpha |-> L.data[y][x][1].alpha,
                tileFlags |-> L.data[y][x][1].tileFlags]>>]]

\* C40: a refreshLayer(true) that directly follows a refreshLayer(true)
\* leaves every tile's index, role, alpha and flags as the first call left
\* them, and every refreshLayer(true) adds exactly 1 to changeCount.
C40_ForcedRefreshIdempotent ==
    [][(last'.op = "refreshLayer" /\ last'.force)
       => /\ layer'.changeCount = layer.changeCount + 1
          /\ (last'.after = "refreshLayer(true)")
             => TileData(layer') = TileData(layer)]_vars

\* The second of two refreshLayer(true) calls returned on a layer holding
\* a tile with faces.
C40_Witness ==
    /\ last.op = "refreshLayer" /\ last.force
    /\ last.after = "refreshLayer(true)"
    /\ last.rulePass /\ last.facePass
    /\ \E y \in DOMAIN layer.data : \E x \in DOMAIN layer.data[y] :
         /\ layer.data[y][x] # Null
         /\ BitAnd(layer.data[y][x][1].tileFlags, FACE_ALL) # 0

====
